---- MODULE Spec2Model ----
(***************************************************************************)
(* Verification model of the ODE integration engine of torchqdynamics /    *)
(* dynamiqs: the fixed-step forward driver and its saving logic            *)
(* (solvers/solver.py, solvers/ode/fixed_solver.py), the checkpointed      *)
(* adjoint backward driver (solvers/ode/adjoint_autograd.py) and the       *)
(* adaptive step-size controller                                           *)
(* (solvers/integrators/adaptive_integrator.py).                           *)
(*                                                                         *)
(* Times are integers, counted in ticks; dt is a whole number of ticks.    *)
(* A quantum state, an adjoint state and a gradient are terms: the         *)
(* sequence of the operations that built them, so that two values are      *)
(* equal exactly when the same operations were applied in the same order.  *)
(***************************************************************************)
EXTENDS Integers, Sequences, FiniteSets, TLC

\* ------------------------------------------------------------------ bounds
MaxT == 3
MaxSave == 3
MaxDt == 2
MaxExpOps == 1
NumParams == 2
MaxTrials == 3

\* ------------------------------------------------------- generic helpers
Abs(x) == IF x < 0 THEN -x ELSE x

\* torch.round / Python round on the quotient n / d (d > 0): half to even
RoundHalfEven(n, d) ==
    LET m == Abs(n)
        q == m \div d
        r == m % d
        up == IF 2 * r > d THEN q + 1
              ELSE IF 2 * r < d THEN q
              ELSE IF q % 2 = 0 THEN q ELSE q + 1
    IN IF n < 0 THEN -up ELSE up

\* torch.isclose(round(x), x) for x = tm / d, with the default rtol = 1e-5 and
\* atol = 1e-8: |round(x) - x| <= atol + rtol * |x|, multiplied by d * 1e5
\* (1e-8 * 1e5 * d < 1 never adds a whole unit for d < 1000)
IsCloseToRound(tm, d) ==
    Abs(RoundHalfEven(tm, d) * d - tm) * 100000 <= Abs(tm)

\* torch.linspace(a, b, n) for n >= 0, on a span b - a that n - 1 divides
Linspace(a, b, n) ==
    IF n = 1 THEN <<a>>
    ELSE [i \in 1..n |-> a + ((i - 1) * (b - a)) \div (n - 1)]

\* s[:-1]
DropLast(s) == IF Len(s) = 0 THEN s ELSE SubSeq(s, 1, Len(s) - 1)

SeqSet(s) == {s[i] : i \in 1..Len(s)}

\* ------------------------------------------------------- terms for values
Y0 == <<<<"y0", 0>>>>
Zeros == <<<<"zeros", 0>>>>
None == <<>>

\* FixedSolver.forward(t, y): y(t + dt), one application of the scheme at t
forward(tm, yy) == Append(yy, <<"fwd", tm>>)

\* the forward integration of an adaptive solver from its current time to
\* the stop time ts
adaptive_forward(ts, yy) == Append(yy, <<"afw", ts>>)

\* bexpect(exp_ops, y): the expectation values of the state y
bexpect(yy) == <<<<"exp", Len(yy)>>>> \o yy

VARIABLES
    \* control: position in the run, raised exception, methods entered
    pc, err, calls,
    \* arguments and options of the solver
    t_save, tmeas, dt, t0, save_states, n_exp, gradient_alg, variant, uses,
    \* Solver / FixedSolver state during the forward run
    t, y, times, t_stop_counter, t_save_counter,
    \* Result buffers, and how often each slot has been written
    y_save, exp_save, y_writes, exp_writes, n_forward,
    \* AdjointAutograd.backward: adjoint, gradients, incoming state gradient,
    \* whether a is a view of it, loop index, stop times gone back to, the
    \* step size carried by the adaptive pass and the one each segment got
    a, a_view, g, grad_y0, bi, b_visited, b_dt, seg_dt,
    \* adaptive controller: position, time, state, step, last error, trials,
    \* arguments of the last update_tstep, derivative scales and first trial
    ad_pc, ad_t, ad_y, ad_dt, ad_err, ad_n, last_dt, last_err, d0, d1, h0

config == <<t_save, tmeas, dt, t0, save_states, n_exp, gradient_alg, variant,
            uses>>
fwdvars == <<t, y, times, t_stop_counter, t_save_counter, y_save, exp_save,
             y_writes, exp_writes, n_forward>>
bwdvars == <<a, a_view, g, grad_y0, bi, b_visited, b_dt, seg_dt>>
advars == <<ad_pc, ad_t, ad_y, ad_dt, ad_err, ad_n, last_dt, last_err, d0, d1,
            h0>>

VARIABLES
    \* mesolve: position, raised exception, module of the scheme classes,
    \* solver option, jump operators, Hamiltonian, initial state, number of
    \* time steps up to t_save[-1], gradient algorithm
    m_pc, m_err, m_impl, m_solver, m_jump_ops, m_H, m_rho0, m_nsteps,
    m_gradient_alg,
    \* the scheme selected, the state, the saved states, the forward steps
    \* done, the adjoint state, the backward steps done, the gradient
    m_qsolver, m_rho, m_rho_save, m_k, m_phi, m_bk, m_grad

mevars == <<m_pc, m_err, m_impl, m_solver, m_jump_ops, m_H, m_rho0, m_nsteps,
            m_gradient_alg, m_qsolver, m_rho, m_rho_save, m_k, m_phi, m_bk,
            m_grad>>

VARIABLES
    \* check_time_array: position, the array (number of dimensions and
    \* elements), allow_empty, and the outcome
    ct_pc, ct_x, ct_allow_empty, ct_res,
    \* sparse arrays: position, the dense matrices A and B, the operation,
    \* the layouts of its operands and how the sparse ones are built,
    \* to_sparse(A), its conversion back, and the result of the operation
    sp_pc, sp_A, sp_B, sp_op, sp_kind, sp_build, sp_sparse, sp_back, sp_out

ctvars == <<ct_pc, ct_x, ct_allow_empty, ct_res>>
spvars == <<sp_pc, sp_A, sp_B, sp_op, sp_kind, sp_build, sp_sparse, sp_back,
            sp_out>>
utilvars == <<ctvars, spvars>>

VARIABLES
    \* floquet: position, the Hamiltonian (one pair H(0), H(T) for each
    \* element of the batch), the period, tsave, the raised exception
    fl_pc, fl_H, fl_T, fl_tsave, fl_err,
    \* global settings: whether the module is loaded, _DEFAULT_LAYOUT, and
    \* the calls made so far with their outcomes
    ly_pc, ly_default, ly_hist,
    \* Solver.run: position, class of the solver, gradient_alg, the methods
    \* entered with their depth below _run, the begin and end time of each
    \* integration, the clock, start_time and end_time of the result
    rn_pc, rn_class, rn_alg, rn_calls, rn_integrations, rn_clock, rn_start,
    rn_end,
    \* DormandPrince5: position, self.tableau, the calls of build_tableau,
    \* the steps taken, the arguments of the current step, the evaluations
    \* of f in the last step, and what the last step returned
    dp_pc, dp_tableau, dp_builds, dp_steps, dp_in, dp_evals, dp_out,
    \* init_tstep: position, the scales d0, d1 and d2, and what it computed
    it_pc, it_d0, it_d1, it_d2, it_out

flvars == <<fl_pc, fl_H, fl_T, fl_tsave, fl_err>>
lyvars == <<ly_pc, ly_default, ly_hist>>
rnvars == <<rn_pc, rn_class, rn_alg, rn_calls, rn_integrations, rn_clock,
            rn_start, rn_end>>
dpvars == <<dp_pc, dp_tableau, dp_builds, dp_steps, dp_in, dp_evals, dp_out>>
itvars == <<it_pc, it_d0, it_d1, it_d2, it_out>>
auxvars == <<flvars, lyvars, rnvars, dpvars, itvars>>

extvars == <<mevars, utilvars, auxvars>>

vars == <<pc, err, calls, config, fwdvars, bwdvars, advars, extvars>>

MesolveOff ==
    /\ m_pc = "off" /\ m_err = "none" /\ m_impl = "none" /\ m_solver = <<>>
    /\ m_jump_ops = <<>> /\ m_H = <<>> /\ m_rho0 = <<>> /\ m_nsteps = 0
    /\ m_gradient_alg = "none" /\ m_qsolver = "none" /\ m_rho = <<>>
    /\ m_rho_save = <<>> /\ m_k = 0 /\ m_phi = <<>> /\ m_bk = 0
    /\ m_grad = "none"

TimeOff ==
    /\ ct_pc = "off" /\ ct_x = <<>> /\ ct_allow_empty = FALSE
    /\ ct_res = "none"

SparseOff ==
    /\ sp_pc = "off" /\ sp_A = <<>> /\ sp_B = <<>> /\ sp_op = "none"
    /\ sp_kind = "none" /\ sp_build = "none" /\ sp_sparse = "none"
    /\ sp_back = "none"
    /\ sp_out = "none"

UtilOff == TimeOff /\ SparseOff

FloquetOff ==
    /\ fl_pc = "off" /\ fl_H = <<>> /\ fl_T = 0 /\ fl_tsave = <<>>
    /\ fl_err = "none"

LayoutOff == ly_pc = "off" /\ ly_default = "none" /\ ly_hist = <<>>

RunOff ==
    /\ rn_pc = "off" /\ rn_class = "none" /\ rn_alg = "none"
    /\ rn_calls = <<>> /\ rn_integrations = <<>> /\ rn_clock = 0
    /\ rn_start = 0 /\ rn_end = 0

StepOff ==
    /\ dp_pc = "off" /\ dp_tableau = <<>> /\ dp_builds = 0 /\ dp_steps = 0
    /\ dp_in = <<>> /\ dp_evals = <<>> /\ dp_out = <<>>

TstepOff ==
    /\ it_pc = "off" /\ it_d0 = 0 /\ it_d1 = 0 /\ it_d2 = 0 /\ it_out = <<>>

AuxOff == FloquetOff /\ LayoutOff /\ RunOff /\ StepOff /\ TstepOff

ExtOff == MesolveOff /\ UtilOff /\ AuxOff

N == Len(t_save)

\* Solver._init_time_logic: the stop times are the save times
t_stop == t_save
t_save_mask == [i \in 1..Len(t_stop) |-> t_stop[i] \in SeqSet(t_save)]

\* the valid time arrays: 1-D, non-empty, strictly ascending, non-negative
TimeArrays ==
    {s \in UNION {[1..n -> 0..MaxT] : n \in 1..MaxSave} :
        \A i \in 1..(Len(s) - 1) : s[i] < s[i + 1]}

MeasArrays == {<<>>} \cup {<<m>> : m \in 0..MaxT}

\* ------------------------------------------------------ the forward driver
\* _assert_multiple_of_dt with torch.any in place of torch.all
assert_multiple_of_dt_any(d, tms) ==
    Len(tms) = 0 \/ \E i \in 1..Len(tms) : IsCloseToRound(tms[i], d)

\* _assert_multiple_of_dt(dt, times, name): TRUE when no ValueError is raised
assert_multiple_of_dt(d, tms) ==
    \A i \in 1..Len(tms) : IsCloseToRound(tms[i], d)

\* FixedSolver.integrate: num_times = round((t1 - t0) / dt) + 1
num_times(ta, tb) == RoundHalfEven(tb - ta, dt) + 1

\* FixedSolver.integrate looping over times instead of times[:-1]
integrate_times_all(ta, tb) == Linspace(ta, tb, num_times(ta, tb))

\* FixedSolver.integrate: times[:-1], the times forward is applied at
integrate_times(ta, tb) == DropLast(Linspace(ta, tb, num_times(ta, tb)))

\* the micro-steps waiting when integrate(tcur, t_stop[k]) is entered
pending(tcur, k) ==
    IF variant = "fixed" THEN integrate_times(tcur, t_stop[k])
    ELSE <<t_stop[k]>>

\* Solver._save_y writing the last slot instead of slot t_save_counter
save_y_last(ys, c, yy) ==
    IF save_states THEN [ys EXCEPT ![Len(ys)] = yy]
    ELSE IF c = Len(t_save) - 1 THEN yy
    ELSE ys

\* Solver._save_y without the test for the final save time
save_y_always(ys, c, yy) ==
    IF save_states THEN [ys EXCEPT ![c + 1] = yy]
    ELSE yy

\* Solver._save_y with t_save_counter = c
save_y(ys, c, yy) ==
    IF save_states THEN [ys EXCEPT ![c + 1] = yy]
    ELSE IF c = Len(t_save) - 1 THEN yy
    ELSE ys

\* Solver._save_exp_ops with t_save_counter = c
save_exp_ops(es, c, yy) ==
    IF n_exp > 0 THEN [es EXCEPT ![c + 1] = bexpect(yy)] ELSE es

\* the write counts after a result went from old to new: in a buffer of
\* slots, every slot that changed was written; a result that is a single
\* state counts under the save counter c it was set at
written(w, old, new, c, slots) ==
    IF old = new THEN w
    ELSE IF slots
    THEN [k \in 1..Len(w) |-> IF old[k] # new[k] THEN w[k] + 1 ELSE w[k]]
    ELSE [w EXCEPT ![c + 1] = @ + 1]

\* Solver._run of the three classes, chained by super()._run()
dispatch(alg) ==
    IF alg = "none" THEN <<"run_nograd", "run_autograd">>
    ELSE IF alg = "autograd" THEN <<"run_autograd">>
    ELSE <<"run_adjoint", "run_nograd", "run_autograd">>

DriverInit ==
    /\ pc = "init" /\ err = "none" /\ calls = <<>>
    /\ t_save \in TimeArrays
    /\ tmeas \in MeasArrays
    /\ dt \in 1..MaxDt
    /\ t0 \in {0, t_save[1]}
    /\ save_states \in BOOLEAN
    /\ n_exp \in 0..MaxExpOps
    /\ gradient_alg \in {"none", "autograd", "adjoint"}
    /\ variant \in {"fixed", "adaptive"}
    /\ uses \in IF gradient_alg = "adjoint" THEN [1..NumParams -> BOOLEAN]
                ELSE {[p \in 1..NumParams |-> TRUE]}
    /\ t = t0 /\ y = Y0 /\ times = <<>>
    /\ t_stop_counter = 0 /\ t_save_counter = 0
    /\ y_save = IF save_states THEN [k \in 1..Len(t_save) |-> Zeros] ELSE None
    /\ exp_save = IF n_exp > 0 THEN [k \in 1..Len(t_save) |-> Zeros] ELSE None
    /\ y_writes = [k \in 1..Len(t_save) |-> 0]
    /\ exp_writes = [k \in 1..Len(t_save) |-> 0]
    /\ n_forward = 0
    /\ a = None /\ a_view = FALSE /\ g = <<>> /\ grad_y0 = None
    /\ bi = 0 /\ b_visited = <<>> /\ b_dt = None /\ seg_dt = <<>>

\* Solver.run, Solver._run and the head of FixedSolver.run_autograd: the
\* checks, then t, y = t0, y0 and the entry of the first integrate
Run ==
    /\ pc = "init"
    /\ calls' = dispatch(gradient_alg)
    /\ IF variant = "fixed" /\ ~(assert_multiple_of_dt(dt, t_save)
                                 /\ assert_multiple_of_dt(dt, tmeas))
       THEN /\ pc' = "error" /\ err' = "ValueError"
            /\ UNCHANGED <<t, y, times>>
       ELSE IF variant = "fixed" /\ num_times(t0, t_stop[1]) < 0
       THEN /\ pc' = "error" /\ err' = "RuntimeError"
            /\ UNCHANGED <<t, y, times>>
       ELSE /\ pc' = "integrate" /\ err' = err
            /\ t' = t0 /\ y' = Y0
            /\ times' = pending(t0, 1)
    /\ UNCHANGED <<config, t_stop_counter, t_save_counter, y_save, exp_save,
                   y_writes, exp_writes, n_forward, bwdvars, advars, extvars>>

\* one iteration of the loop of FixedSolver.integrate: y = forward(t, y)
Forward ==
    /\ pc = "integrate" /\ variant = "fixed" /\ times # <<>>
    /\ y' = forward(Head(times), y)
    /\ times' = Tail(times)
    /\ n_forward' = n_forward + 1
    /\ UNCHANGED <<pc, err, calls, config, t, t_stop_counter, t_save_counter,
                   y_save, exp_save, y_writes, exp_writes, bwdvars, advars, extvars>>

\* the integrate of an adaptive solver, up to the next stop time
AdaptiveForward ==
    /\ pc = "integrate" /\ variant = "adaptive" /\ times # <<>>
    /\ y' = adaptive_forward(Head(times), y)
    /\ times' = Tail(times)
    /\ n_forward' = n_forward + 1
    /\ UNCHANGED <<pc, err, calls, config, t, t_stop_counter, t_save_counter,
                   y_save, exp_save, y_writes, exp_writes, bwdvars, advars, extvars>>

\* integrate has returned: self.save(y); t = ts; then the next iteration of
\* the loop over the stop times enters integrate, or the loop ends
Save ==
    /\ pc = "integrate" /\ times = <<>>
    /\ LET c == t_save_counter
           masked == t_save_mask[t_stop_counter + 1]
           inrange == (~save_states) \/ c + 1 <= Len(t_save)
           ts == t_stop[t_stop_counter + 1]
       IN IF masked /\ ~inrange
          THEN /\ pc' = "error" /\ err' = "IndexError"
               /\ UNCHANGED <<t, times, t_stop_counter, t_save_counter,
                              y_save, exp_save, y_writes, exp_writes>>
          ELSE /\ y_save' = IF masked THEN save_y(y_save, c, y) ELSE y_save
               /\ exp_save' = IF masked THEN save_exp_ops(exp_save, c, y)
                              ELSE exp_save
               /\ y_writes' = written(y_writes, y_save, y_save', c, save_states)
               /\ exp_writes' = written(exp_writes, exp_save, exp_save', c, TRUE)
               /\ t_save_counter' = IF masked THEN c + 1 ELSE c
               /\ t_stop_counter' = t_stop_counter + 1
               /\ t' = ts
               /\ IF t_stop_counter + 1 < Len(t_stop)
                  THEN IF variant = "fixed"
                          /\ num_times(ts, t_stop[t_stop_counter + 2]) < 0
                       THEN /\ pc' = "error" /\ err' = "RuntimeError"
                            /\ times' = times
                       ELSE /\ pc' = "integrate" /\ err' = err
                            /\ times' = pending(ts, t_stop_counter + 2)
                  ELSE /\ pc' = "ran" /\ err' = err /\ times' = times
    /\ UNCHANGED <<calls, config, y, n_forward, bwdvars, advars, extvars>>

\* the run returns to Solver.run when no adjoint pass was asked for
Return ==
    /\ pc = "ran" /\ gradient_alg # "adjoint"
    /\ pc' = "done"
    /\ UNCHANGED <<err, calls, config, fwdvars, bwdvars, advars, extvars>>

\* ------------------------------------------- the adjoint backward driver
\* the gradient of the loss with respect to the saved state of slot k, and
\* sum_i grad_y[1][i, k] * exp_ops[i].mH, the term of the expectation values
GradY(k) == <<<<"gy", k>>>>
GradE(k) == <<<<"ge", k>>>>

\* grad_y[0] as handed to backward: one slot per save time when the states
\* were saved, the gradient of the final state alone otherwise
IncomingGradY ==
    IF save_states THEN [k \in 1..N |-> GradY(k)] ELSE GradY(N)

\* solver.t_stop_backward(): the stop times the backward pass goes back to
t_stop_backward == DropLast(t_stop)

\* t_stop[::-1]
Reverse(s) == [i \in 1..Len(s) |-> s[Len(s) + 1 - i]]

\* the index -i - 1 in place of -i - 2
y_index_off(i, n) == n - i - 1
ge_index_off(i, n) == n - i - 1

\* the position, counted from 0, that the Python index -i - 2 selects in a
\* dimension of n entries; negative when it falls outside
y_index(i, n) == n - i - 2
gy_index(i, n) == n - i - 2
ge_index(i, n) == n - i - 2

\* backward_augmented(t, y, a): y(t - dt) and a(t - dt)
backward_augmented(tm, yy, aa) ==
    <<Append(yy, <<"bwd", tm>>), Append(aa, <<"bwd", tm>>)>>

\* torch.autograd.grad(a, params, y, allow_unused=True) at the micro-step of
\* time tm: None for a parameter the step does not depend on
NoGrad == <<<<"none", 0>>>>
autograd_grad(tm) ==
    [p \in 1..NumParams |-> IF uses[p] THEN <<<<"dg", tm>>>> ELSE NoGrad]

none_to_zeros_like(dg) ==
    [p \in 1..NumParams |-> IF dg[p] = NoGrad THEN <<>> ELSE dg[p]]

add_tuples(ga, gb) == [p \in 1..NumParams |-> ga[p] \o gb[p]]

\* the loop of AdjointFixedSolver.integrate_augmented over times[:-1]
RECURSIVE augmented_loop(_, _, _, _)
augmented_loop(tms, yy, aa, gg) ==
    IF tms = <<>> THEN <<yy, aa, gg>>
    ELSE LET ya == backward_augmented(-Head(tms), yy, aa)
             dg == none_to_zeros_like(autograd_grad(-Head(tms)))
         IN augmented_loop(Tail(tms), ya[1], ya[2], add_tuples(gg, dg))

\* AdjointFixedSolver.integrate_augmented(t0, t1, y, a, g), for a number of
\* times that linspace accepts
integrate_augmented(ta, tb, yy, aa, gg) ==
    augmented_loop(integrate_times(ta, tb), yy, aa, gg)

\* integrate_augmented of an adaptive solver, from ta back to tb
adaptive_integrate_augmented(ta, tb, yy, aa, gg) ==
    <<Append(yy, <<"abw", tb>>), Append(aa, <<"abw", tb>>),
      add_tuples(gg, none_to_zeros_like(
          [p \in 1..NumParams |-> IF uses[p] THEN <<<<"adg", tb>>>>
                                  ELSE NoGrad]))>>

\* a += x: in place, so that it also writes the tensor a is a view of
AddInPlace(gy, view, x) ==
    IF ~view THEN gy
    ELSE IF save_states THEN [gy EXCEPT ![N] = @ \o x]
    ELSE gy \o x

\* dt = min(dt_y, dt_a) of the two init_tstep calls on the augmented
\* derivative at time tm, with y the checkpoint of that time
init_tstep_augmented(tm) == <<<<"init_tstep", tm>>>>

\* the step size integrate_augmented hands back after the segment that ends
\* at tb: the one it was given, updated by the steps of the segment
augmented_tstep(dtt, tb) == Append(dtt, <<"update_tstep", tb>>)

\* y = ... written through the view: the tensor y is a view of receives yy
assign_y_inplace(ys, k, yy) ==
    IF save_states THEN [ys EXCEPT ![k] = yy] ELSE yy

\* y, a = ...: the name y is bound to the tensor yy; the buffer ys, whose
\* slot k the old y was a view of, keeps its content
assign_y(ys, k, yy) == ys

\* backward, up to the loop: y, a, g and t are initialised
BackwardInit ==
    /\ pc = "ran" /\ gradient_alg = "adjoint"
    /\ pc' = "backward"
    /\ y' = IF save_states THEN y_save[N] ELSE y_save
    /\ LET a0 == IF save_states THEN IncomingGradY[N] ELSE IncomingGradY
           x == IF n_exp > 0 THEN GradE(N) ELSE <<>>
       IN /\ a' = a0 \o x
          /\ grad_y0' = AddInPlace(IncomingGradY, TRUE, x)
    /\ a_view' = TRUE
    /\ g' = [p \in 1..NumParams |-> <<>>]
    /\ t' = t_save[N]
    /\ bi' = 0 /\ b_visited' = <<>>
    /\ b_dt' = IF variant = "adaptive" THEN init_tstep_augmented(t_save[N])
              ELSE None
    /\ seg_dt' = <<>>
    /\ UNCHANGED <<err, calls, config, times, t_stop_counter, t_save_counter,
                   y_save, exp_save, y_writes, exp_writes, n_forward, advars, extvars>>

\* one iteration of the loop of backward over t_stop[::-1]
BackwardSegment ==
    /\ pc = "backward" /\ bi < Len(t_stop_backward)
    /\ LET ts == Reverse(t_stop_backward)[bi + 1]
           fails == variant = "fixed" /\ num_times(t, ts) < 0
           r == IF variant = "fixed"
                THEN integrate_augmented(t, ts, y, a, g)
                ELSE adaptive_integrate_augmented(t, ts, y, a, g)
           view == a_view /\ r[2] = a
           outside == \/ save_states /\ (y_index(bi, N) < 0
                                         \/ gy_index(bi, N) < 0)
                      \/ n_exp > 0 /\ ge_index(bi, N) < 0
           xy == IF save_states THEN grad_y0[gy_index(bi, N) + 1] ELSE <<>>
           xe == IF n_exp > 0 THEN GradE(ge_index(bi, N) + 1) ELSE <<>>
       IN IF fails
          THEN /\ pc' = "error" /\ err' = "RuntimeError"
               /\ UNCHANGED <<t, y, y_save, bwdvars>>
          ELSE IF outside
          THEN /\ pc' = "error" /\ err' = "IndexError"
               /\ y_save' = assign_y(y_save, N - bi, r[1])
               /\ UNCHANGED <<t, y, bwdvars>>
          ELSE /\ pc' = pc /\ err' = err
               /\ y_save' = assign_y(y_save, N - bi, r[1])
               /\ y' = IF save_states THEN y_save'[y_index(bi, N) + 1]
                       ELSE r[1]
               /\ a' = r[2] \o xy \o xe
               /\ a_view' = view
               /\ grad_y0' = AddInPlace(grad_y0, view, xy \o xe)
               /\ g' = r[3]
               /\ t' = ts
               /\ bi' = bi + 1
               /\ b_visited' = Append(b_visited, ts)
               /\ seg_dt' = Append(seg_dt, b_dt)
               /\ b_dt' = IF variant = "adaptive" THEN augmented_tstep(b_dt, ts)
                         ELSE b_dt
    /\ UNCHANGED <<calls, config, times, t_stop_counter, t_save_counter,
                   exp_save, y_writes, exp_writes, n_forward, advars, extvars>>

\* the loop is over: backward returns a and the gradients g
BackwardReturn ==
    /\ pc = "backward" /\ bi = Len(t_stop_backward)
    /\ pc' = "done"
    /\ UNCHANGED <<err, calls, config, fwdvars, bwdvars, advars, extvars>>

\* ------------------------------------------- the adaptive step controller
\* A real number is <<n, d, e>>, the value (n / d) * 10^e with n >= 0, kept
\* in lowest terms with no factor 10 left in n or d; d = 0 is infinity, the
\* result of a division by zero.
RECURSIVE GCD(_, _)
GCD(m, n) == IF n = 0 THEN m ELSE GCD(n, m % n)

RECURSIVE Zeros10(_)
Zeros10(n) == IF n % 10 = 0 THEN 1 + Zeros10(n \div 10) ELSE 0

RECURSIVE Pow(_, _)
Pow(b, k) == IF k = 0 THEN 1 ELSE b * Pow(b, k - 1)

Zero == <<0, 1, 0>>
One == <<1, 1, 0>>
Inf == <<1, 0, 0>>

Norm(n, d, e) ==
    IF d = 0 THEN Inf
    ELSE IF n = 0 THEN Zero
    ELSE LET c == GCD(n, d)
             nn == n \div c
             dd == d \div c
             zn == Zeros10(nn)
             zd == Zeros10(dd)
         IN <<nn \div Pow(10, zn), dd \div Pow(10, zd), e + zn - zd>>

RMul(x, z) == Norm(x[1] * z[1], x[2] * z[2], x[3] + z[3])
RDiv(x, z) == Norm(x[1] * z[2], x[2] * z[1], x[3] - z[3])

\* u * 10^k < v and u < v * 10^k, for k >= 0
RECURSIVE LessUp(_, _, _)
LessUp(u, v, k) ==
    IF u >= v THEN FALSE ELSE IF k = 0 THEN TRUE ELSE LessUp(10 * u, v, k - 1)
RECURSIVE LessDown(_, _, _)
LessDown(u, v, k) ==
    IF u < v THEN TRUE ELSE IF k = 0 THEN FALSE
    ELSE LessDown(u, 10 * v, k - 1)

RLess(x, z) ==
    LET u == x[1] * z[2]
        v == z[1] * x[2]
        k == x[3] - z[3]
    IN IF v = 0 THEN FALSE
       ELSE IF u = 0 THEN TRUE
       ELSE IF k >= 0 THEN LessUp(u, v, k) ELSE LessDown(u, v, -k)
RLeq(x, z) == ~RLess(z, x)
RMin(x, z) == IF RLess(z, x) THEN z ELSE x
RMax(x, z) == IF RLess(x, z) THEN z ELSE x

RAdd(x, z) ==
    LET e == IF x[3] < z[3] THEN x[3] ELSE z[3]
    IN Norm(x[1] * z[2] * Pow(10, x[3] - e) + z[1] * x[2] * Pow(10, z[3] - e),
            x[2] * z[2], e)

\* the k-th root of a whole number that is a k-th power
RootMax == 6
Root(n, k) == CHOOSE r \in 1..RootMax : Pow(r, k) = n

\* x ** (-1.0 / k), for x > 0 whose parts are k-th powers
PowNegInv(x, k) == Norm(Root(x[2], k), Root(x[1], k), -(x[3] \div k))

\* AdaptiveIntegrator.__init__ defaults, and the order of DormandPrince5
factor == <<9, 1, -1>>
min_factor == <<2, 1, -1>>
max_factor == <<5, 1, 0>>
order == 5

\* update_tstep with the rejected step clamped to [min_factor, 1.0]
update_tstep_loose(h, error) ==
    IF error = Zero THEN RMul(h, max_factor)
    ELSE LET dt_opt == RMul(h, PowNegInv(error, order))
         IN IF RLeq(error, One)
            THEN RMul(h, RMin(max_factor, RMax(One, RMul(factor, dt_opt))))
            ELSE RMul(h, RMin(One, RMax(min_factor, RMul(factor, dt_opt))))

\* update_tstep growing by factor instead of max_factor on a zero error
update_tstep_nogrow(h, error) ==
    IF error = Zero THEN RMul(h, factor)
    ELSE LET dt_opt == RMul(h, PowNegInv(error, order))
         IN IF RLeq(error, One)
            THEN RMul(h, RMin(max_factor, RMax(One, RMul(factor, dt_opt))))
            ELSE RMul(h, RMin(<<9, 1, -1>>,
                              RMax(min_factor, RMul(factor, dt_opt))))

\* update_tstep with the accepted step clamped to [min_factor, max_factor]
update_tstep_shrink(h, error) ==
    IF error = Zero THEN RMul(h, max_factor)
    ELSE LET dt_opt == RMul(h, PowNegInv(error, order))
         IN IF RLeq(error, One)
            THEN RMul(h, RMin(max_factor,
                              RMax(min_factor, RMul(factor, dt_opt))))
            ELSE RMul(h, RMin(<<9, 1, -1>>,
                              RMax(min_factor, RMul(factor, dt_opt))))

\* AdaptiveIntegrator.update_tstep(dt, error)
update_tstep(h, error) ==
    IF error = Zero THEN RMul(h, max_factor)
    ELSE LET dt_opt == RMul(h, PowNegInv(error, order))
         IN IF RLeq(error, One)
            THEN RMul(h, RMin(max_factor, RMax(One, RMul(factor, dt_opt))))
            ELSE RMul(h, RMin(<<9, 1, -1>>,
                              RMax(min_factor, RMul(factor, dt_opt))))

\* init_tstep taking 1e-6 only when both scales are below 1e-5
init_h0_both(s0, s1) ==
    IF RLess(s0, <<1, 1, -5>>) /\ RLess(s1, <<1, 1, -5>>) THEN <<1, 1, -6>>
    ELSE RMul(<<1, 1, -2>>, RDiv(s0, s1))

\* AdaptiveIntegrator.init_tstep: the first trial step h0
Tiny == <<1, 1, -5>>
init_h0(s0, s1) ==
    IF RLess(s0, Tiny) \/ RLess(s1, Tiny) THEN <<1, 1, -6>>
    ELSE RMul(<<1, 1, -2>>, RDiv(s0, s1))

\* the derivative scales d0 and d1, the steps init_tstep may return, the
\* errors get_error may return: (p / q) ** order
Scales == {Zero, <<1, 1, -6>>, Tiny, One, <<2, 1, 0>>}
FirstSteps == {<<1, 1, -4>>, <<5, 1, -1>>, One, <<2, 1, 0>>}
Errors ==
    {Norm(Pow(pq[1], order), Pow(pq[2], order), 0) :
        pq \in {<<0, 1>>, <<1, 2>>, <<1, 1>>, <<6, 5>>, <<3, 2>>, <<2, 1>>}}

\* the end of the interval the adaptive integration runs over
IntervalEnd == <<3, 1, 0>>

DriverOff ==
    /\ pc = "off" /\ err = "none" /\ calls = <<>>
    /\ t_save = <<0>> /\ tmeas = <<>> /\ dt = 1 /\ t0 = 0
    /\ save_states = TRUE /\ n_exp = 0 /\ gradient_alg = "none"
    /\ variant = "adaptive" /\ uses = [p \in 1..NumParams |-> TRUE]
    /\ t = 0 /\ y = Y0 /\ times = <<>>
    /\ t_stop_counter = 0 /\ t_save_counter = 0
    /\ y_save = <<Zeros>> /\ exp_save = None
    /\ y_writes = <<0>> /\ exp_writes = <<0>> /\ n_forward = 0
    /\ a = None /\ a_view = FALSE /\ g = <<>> /\ grad_y0 = None
    /\ bi = 0 /\ b_visited = <<>> /\ b_dt = None /\ seg_dt = <<>>

drivervars == <<pc, err, calls, config, fwdvars, bwdvars>>

AdaptiveInit ==
    /\ DriverOff /\ ExtOff
    /\ ad_pc = "new"
    /\ d0 \in Scales /\ d1 \in Scales
    /\ h0 = Zero /\ ad_dt = Zero
    /\ ad_t = Zero /\ ad_y = <<>> /\ ad_err = One /\ ad_n = 0
    /\ last_dt = Zero /\ last_err = Zero

\* init_tstep: h0 from the scales d0 and d1; the step it returns,
\* min(100 * h0, h1), is some positive step that is at most 100 * h0
InitTstep ==
    /\ ad_pc = "new"
    /\ ad_pc' = "loop"
    /\ h0' = init_h0(d0, d1)
    /\ ad_dt' \in {h \in FirstSteps : RLeq(h, RMul(<<1, 1, 2>>, h0'))}
    /\ UNCHANGED <<drivervars, extvars, ad_t, ad_y, ad_err, ad_n, last_dt, last_err,
                   d0, d1>>

\* one trial of the adaptive loop: the step is updated from the last error,
\* a step of that size is computed and its error estimated; it is accepted,
\* and time and state advance, when the error is at most 1
AdaptiveStep ==
    /\ ad_pc = "loop" /\ ad_n < MaxTrials /\ RLess(ad_t, IntervalEnd)
    /\ \E e \in Errors :
        LET h == update_tstep(ad_dt, ad_err)
        IN /\ last_dt' = ad_dt /\ last_err' = ad_err
           /\ ad_dt' = h
           /\ ad_err' = e
           /\ ad_n' = ad_n + 1
           /\ IF RLeq(e, One)
              THEN ad_t' = RAdd(ad_t, h) /\ ad_y' = Append(ad_y, h)
              ELSE ad_t' = ad_t /\ ad_y' = ad_y
    /\ UNCHANGED <<drivervars, extvars, ad_pc, d0, d1, h0>>

\* the end of the interval is reached
AdaptiveReturn ==
    /\ ad_pc = "loop" /\ RLeq(IntervalEnd, ad_t)
    /\ ad_pc' = "done"
    /\ UNCHANGED <<drivervars, extvars, ad_t, ad_y, ad_dt, ad_err, ad_n, last_dt,
                   last_err, d0, d1, h0>>

AdaptiveNext == InitTstep \/ AdaptiveStep \/ AdaptiveReturn

SpecAdaptive == AdaptiveInit /\ [][AdaptiveNext]_vars

AdaptiveOff ==
    /\ ad_pc = "off" /\ ad_t = 0 /\ ad_y = 0 /\ ad_dt = 0 /\ ad_err = 0
    /\ ad_n = 0 /\ last_dt = 0 /\ last_err = 0 /\ d0 = 0 /\ d1 = 0 /\ h0 = 0

\* ------------------------------------------------ the Lindblad step schemes
\* The schemes are computed exactly on a two-level system whose Hamiltonian
\* and states are diagonal: an operator diag(z1, z2) is the pair of its
\* complex entries, a state the pair of its populations.  A rational number
\* is <<n, d>>, n / d in lowest terms with d > 0; a complex number is
\* <<re, im>>.
Q(n, d) == LET c == GCD(Abs(n), d) IN <<n \div c, d \div c>>
Q0 == Q(0, 1)
Q1 == Q(1, 1)
QHalf == Q(1, 2)
QAdd(x, z) ==
    LET c == GCD(x[2], z[2])
    IN Q(x[1] * (z[2] \div c) + z[1] * (x[2] \div c), x[2] * (z[2] \div c))
QNeg(x) == <<-x[1], x[2]>>
QSub(x, z) == QAdd(x, QNeg(z))
QMul(x, z) ==
    LET c == GCD(Abs(x[1]), z[2])
        e == GCD(Abs(z[1]), x[2])
    IN Q((x[1] \div c) * (z[1] \div e), (x[2] \div e) * (z[2] \div c))
QDiv(x, z) ==
    IF z[1] > 0 THEN QMul(x, <<z[2], z[1]>>)
    ELSE QMul(x, <<-z[2], -z[1]>>)
QLeq(x, z) == x[1] * z[2] <= z[1] * x[2]
QAbs(x) == <<Abs(x[1]), x[2]>>

CZero == <<Q0, Q0>>
COne == <<Q1, Q0>>
CAdd(u, v) == <<QAdd(u[1], v[1]), QAdd(u[2], v[2])>>
CSub(u, v) == <<QSub(u[1], v[1]), QSub(u[2], v[2])>>
CMul(u, v) ==
    <<QSub(QMul(u[1], v[1]), QMul(u[2], v[2])),
      QAdd(QMul(u[1], v[2]), QMul(u[2], v[1]))>>
CScale(q, u) == <<QMul(q, u[1]), QMul(q, u[2])>>
CConj(u) == <<u[1], QSub(Q0, u[2])>>
CAbs2(u) == QAdd(QMul(u[1], u[1]), QMul(u[2], u[2]))
\* 1j * q
J(q) == <<Q0, q>>

\* a jump operator is sqrt(kappa) * sigma_minus = sqrt(kappa) |1><2|, kept
\* as its rate kappa; kappa = 0 is the zero operator
RECURSIVE SumRates(_)
SumRates(ops) ==
    IF ops = <<>> THEN Q0 ELSE QAdd(Head(ops), SumRates(Tail(ops)))

\* sum_nojump counting the jump operators in place of summing L^dagger L
sum_nojump_count(ops) == <<Q0, Q(Len(ops), 1)>>

\* MERouchon.__init__: (jump_ops.adjoint() @ jump_ops).sum(dim=0)
sum_nojump(ops) == <<Q0, SumRates(ops)>>

\* H_nh = H - 0.5j * sum_nojump
H_nh(H, ops) ==
    [k \in 1..2 |-> CSub(<<H[k], Q0>>, CMul(J(QHalf), <<sum_nojump(ops)[k], Q0>>))]

\* H_nh.adjoint()
Hdag_nh(H, ops) == [k \in 1..2 |-> CConj(H_nh(H, ops)[k])]

\* kraus_map(rho, M) for a diagonal operator M: M rho M^dagger
kraus_map(rho, M) == [k \in 1..2 |-> QMul(CAbs2(M[k]), rho[k])]

\* kraus_map(rho, Ms) for operators c_j |1><2|, given by the weights |c_j|^2
RECURSIVE SumSeq(_)
SumSeq(ws) == IF ws = <<>> THEN Q0 ELSE QAdd(Head(ws), SumSeq(Tail(ws)))
kraus_map_jump(rho, ws) == <<QMul(SumSeq(ws), rho[2]), Q0>>

\* kraus_map(phi, Ms) for the adjoint operators conj(c_j) |2><1|
kraus_map_jump_adj(phi, ws) == <<Q0, QMul(SumSeq(ws), phi[1])>>

\* kraus_map(rho, inv_sqrtm(S)) for the diagonal positive matrix S
kraus_map_inv_sqrtm(rho, S) == [k \in 1..2 |-> QDiv(rho[k], S[k])]

trace(rho) == QAdd(rho[1], rho[2])
VAdd(u, v) == [k \in 1..2 |-> QAdd(u[k], v[k])]
VSub(u, v) == [k \in 1..2 |-> QSub(u[k], v[k])]
VScale(q, u) == [k \in 1..2 |-> QMul(q, u[k])]

\* rho / trace(rho)[..., None, None].real
normalize(rho) == [k \in 1..2 |-> QDiv(rho[k], trace(rho))]

\* ---- MERouchon1 (mesolve.py and mesolve/rouchon.py compute the same step)
\* M0 = I - 1j * dt * H_nh
M0_order1(H, ops, dtq) ==
    [k \in 1..2 |-> CSub(COne, CMul(J(dtq), H_nh(H, ops)[k]))]

\* M1s = sqrt(dt) * jump_ops, as weights
M1s_order1(ops, dtq) == [j \in 1..Len(ops) |-> QMul(dtq, ops[j])]

\* MERouchon1.forward
MERouchon1_forward(rho, H, ops, dtq) ==
    normalize(VAdd(kraus_map(rho, M0_order1(H, ops, dtq)),
                   kraus_map_jump(rho, M1s_order1(ops, dtq))))

\* MERouchon1.backward_augmented: rho(t - dt) and phi(t - dt)
MERouchon1_backward_augmented(rho, phi, H, ops, dtq) ==
    LET M0 == [k \in 1..2 |-> CAdd(COne, CMul(J(dtq), H_nh(H, ops)[k]))]
        M0_adj == [k \in 1..2 |->
                      CAdd(COne, CMul(J(dtq), Hdag_nh(H, ops)[k]))]
        M1s == M1s_order1(ops, dtq)
    IN <<normalize(VSub(kraus_map(rho, M0), kraus_map_jump(rho, M1s))),
         VAdd(kraus_map(phi, M0_adj), kraus_map_jump_adj(phi, M1s))>>

\* ---- MERouchon1_5
\* MERouchon1_5.forward: S = M0.adjoint() @ M0 + dt * sum_nojump, then the
\* Kraus map of the state S^(-1/2) rho S^(-1/2), with no division by the trace
MERouchon1_5_forward(rho, H, ops, dtq) ==
    LET M0 == M0_order1(H, ops, dtq)
        S == [k \in 1..2 |->
                 QAdd(CAbs2(M0[k]), QMul(dtq, sum_nojump(ops)[k]))]
        r == kraus_map_inv_sqrtm(rho, S)
    IN VAdd(kraus_map(r, M0), kraus_map_jump(r, M1s_order1(ops, dtq)))

\* ---- MERouchon2
\* M0 = I -+ 1j * dt * Hn - 0.5 * dt**2 * Hn @ Hn, with sign = -1 in forward
\* and + 1 in backward_augmented
M0_order2(Hn, dtq, sign) ==
    [k \in 1..2 |->
        CSub(CAdd(COne, CScale(Q(sign, 1), CMul(J(dtq), Hn[k]))),
             CScale(QMul(QHalf, QMul(dtq, dtq)), CMul(Hn[k], Hn[k])))]

\* M1s = 0.5 * sqrt(dt) * (jump_ops @ M0 + M0 @ jump_ops), as weights
M1s_order2(ops, M0, dtq) ==
    [j \in 1..Len(ops) |->
        QMul(QMul(Q(1, 4), QMul(dtq, ops[j])), CAbs2(CAdd(M0[1], M0[2])))]

\* MERouchon2.forward
MERouchon2_forward(rho, H, ops, dtq) ==
    LET M0 == M0_order2(H_nh(H, ops), dtq, -1)
        M1s == M1s_order2(ops, M0, dtq)
        tmp == kraus_map_jump(rho, M1s)
    IN normalize(VAdd(VAdd(kraus_map(rho, M0), tmp),
                      VScale(QHalf, kraus_map_jump(tmp, M1s))))

\* MERouchon2.backward_augmented
MERouchon2_backward_augmented(rho, phi, H, ops, dtq) ==
    LET M0 == M0_order2(H_nh(H, ops), dtq, 1)
        M1s == M1s_order2(ops, M0, dtq)
        tmp == kraus_map_jump(rho, M1s)
        M0_adj == M0_order2(Hdag_nh(H, ops), dtq, 1)
        M1s_adj == M1s_order2(ops, M0_adj, dtq)
        tmpa == kraus_map_jump_adj(phi, M1s_adj)
    IN <<normalize(VAdd(VSub(kraus_map(rho, M0), tmp),
                        VScale(QHalf, kraus_map_jump(tmp, M1s)))),
         VAdd(VAdd(kraus_map(phi, M0_adj), tmpa),
              VScale(QHalf, kraus_map_jump_adj(tmpa, M1s_adj)))>>

\* ---- MESolveRouchon1Integrator.terms: kraus_map(t0, t1, y0) with
\* M0 = Id - (1j * H + 0.5 * LdL_tot) * delta_t and Mk = L * sqrt(delta_t);
\* it returns M0 @ y0 @ dag(M0) + second_term
MESolveRouchon1_kraus_map(y0, H, ops, delta_t) ==
    LET LdL_tot == sum_nojump(ops)
        M0 == [k \in 1..2 |->
                  CSub(COne,
                       CScale(delta_t,
                              CAdd(CMul(J(Q1), <<H[k], Q0>>),
                                   CScale(QHalf, <<LdL_tot[k], Q0>>))))]
        second_term == kraus_map_jump(y0, M1s_order1(ops, delta_t))
    IN VAdd(kraus_map(y0, M0), second_term)

\* ---- mesolve
MaxSteps == 2
MaxJumps == 2

\* the solver options: none given, a Rouchon option <<"Rouchon", 10 * order,
\* dt>>, an option of another class
Solvers ==
    {<<"None", 10, Q(1, 100)>>, <<"Other", 10, QHalf>>}
    \cup {<<"Rouchon", o, QHalf>> : o \in {10, 15, 20, 30}}

JumpOps == UNION {[1..n -> {Q0, Q1}] : n \in 0..MaxJumps}
Hamiltonians == {<<Q0, Q0>>, <<Q0, Q1>>, <<Q1, Q0>>}
States == {<<Q1, Q0>>, <<Q0, Q1>>, <<QHalf, QHalf>>}

\* mesolve without the test of len(jump_ops)
check_jump_ops_none(ops) == TRUE

\* mesolve: if len(jump_ops) == 0: raise ValueError
check_jump_ops(ops) == Len(ops) # 0

\* the class that the dispatch binds qsolver to; the name stays unbound
\* when no branch assigns it
qsolver_class(sv) ==
    LET o == IF sv[1] = "None" THEN 10 ELSE sv[2]
    IN IF o = 10 THEN "MERouchon1"
       ELSE IF o = 15 THEN "MERouchon1_5"
       ELSE IF o = 20 THEN "MERouchon2"
       ELSE "unbound"

\* every scheme with its backward step
has_backward_all(impl, q) == TRUE

\* whether the class q of module impl implements the step of the backward
\* pass: backward_augmented of mesolve/rouchon.py, forward_adjoint of
\* mesolve.py
has_backward(impl, q) == impl = "package" /\ q \in {"MERouchon1", "MERouchon2"}

\* qsolver.forward(t, rho)
scheme_forward(q, rho, H, ops, dtq) ==
    IF q = "MERouchon1" THEN MERouchon1_forward(rho, H, ops, dtq)
    ELSE IF q = "MERouchon1_5" THEN MERouchon1_5_forward(rho, H, ops, dtq)
    ELSE IF q = "MERouchon2" THEN MERouchon2_forward(rho, H, ops, dtq)
    ELSE MESolveRouchon1_kraus_map(rho, H, ops, dtq)

\* qsolver.backward_augmented(t, rho, phi, parameters)
scheme_backward(q, rho, phi, H, ops, dtq) ==
    IF q = "MERouchon1"
    THEN MERouchon1_backward_augmented(rho, phi, H, ops, dtq)
    ELSE MERouchon2_backward_augmented(rho, phi, H, ops, dtq)

m_dt == m_solver[3]

MesolveInit ==
    /\ DriverOff /\ AdaptiveOff /\ UtilOff /\ AuxOff
    /\ m_pc = "call" /\ m_err = "none"
    /\ m_impl \in {"single", "package", "dx"}
    /\ m_solver \in Solvers
    /\ m_jump_ops \in JumpOps
    /\ m_H \in Hamiltonians
    /\ m_rho0 \in States
    /\ m_nsteps \in 0..MaxSteps
    /\ m_gradient_alg \in {"none", "adjoint"}
    /\ m_impl = "dx" =>
         /\ m_solver = <<"Rouchon", 10, QHalf>> /\ m_jump_ops # <<>>
         /\ m_gradient_alg = "none"
    /\ m_solver[1] = "None" => m_nsteps <= 1
    /\ m_solver[2] = 20 => m_nsteps <= 2
    /\ m_qsolver = "none" /\ m_rho = <<>> /\ m_rho_save = <<>>
    /\ m_k = 0 /\ m_phi = <<>> /\ m_bk = 0 /\ m_grad = "none"

\* mesolve up to the call of odeint, and the first save of odeint
Mesolve ==
    /\ m_pc = "call"
    /\ IF m_impl = "dx"
       THEN /\ m_qsolver' = "MESolveRouchon1Integrator"
            /\ m_pc' = "forward" /\ m_err' = m_err
            /\ m_rho' = m_rho0 /\ m_rho_save' = <<m_rho0>>
       ELSE IF ~check_jump_ops(m_jump_ops)
       THEN /\ m_pc' = "error" /\ m_err' = "ValueError"
            /\ UNCHANGED <<m_qsolver, m_rho, m_rho_save>>
       ELSE IF m_solver[1] = "Other"
       THEN /\ m_pc' = "error" /\ m_err' = "NotImplementedError"
            /\ UNCHANGED <<m_qsolver, m_rho, m_rho_save>>
       ELSE IF qsolver_class(m_solver) = "unbound"
       THEN /\ m_pc' = "error" /\ m_err' = "UnboundLocalError"
            /\ m_qsolver' = "unbound"
            /\ UNCHANGED <<m_rho, m_rho_save>>
       ELSE /\ m_qsolver' = qsolver_class(m_solver)
            /\ m_pc' = "forward" /\ m_err' = m_err
            /\ m_rho' = m_rho0 /\ m_rho_save' = <<m_rho0>>
    /\ UNCHANGED <<drivervars, advars, utilvars, auxvars, m_impl, m_solver, m_jump_ops, m_H,
                   m_rho0, m_nsteps, m_gradient_alg, m_k, m_phi, m_bk,
                   m_grad>>

\* one time step of the forward pass, saved
MesolveForward ==
    /\ m_pc = "forward" /\ m_k < m_nsteps
    /\ m_rho' = scheme_forward(m_qsolver, m_rho, m_H, m_jump_ops, m_dt)
    /\ m_rho_save' = Append(m_rho_save, m_rho')
    /\ m_k' = m_k + 1
    /\ UNCHANGED <<drivervars, advars, utilvars, auxvars, m_pc, m_err, m_impl, m_solver,
                   m_jump_ops, m_H, m_rho0, m_nsteps, m_gradient_alg,
                   m_qsolver, m_phi, m_bk, m_grad>>

\* the forward pass is over and mesolve returns the saved states
MesolveReturn ==
    /\ m_pc = "forward" /\ m_k = m_nsteps
    /\ m_pc' = "returned"
    /\ UNCHANGED <<drivervars, advars, utilvars, auxvars, m_err, m_impl, m_solver, m_jump_ops,
                   m_H, m_rho0, m_nsteps, m_gradient_alg, m_qsolver, m_rho,
                   m_rho_save, m_k, m_phi, m_bk, m_grad>>

\* the backward pass of the adjoint method starts from the final state, with
\* the gradient of the loss for the adjoint state
MesolveBackward ==
    /\ m_pc = "returned" /\ m_gradient_alg = "adjoint"
    /\ m_pc' = "backward"
    /\ \E phi \in States : m_phi' = phi
    /\ m_bk' = 0
    /\ UNCHANGED <<drivervars, advars, utilvars, auxvars, m_err, m_impl, m_solver, m_jump_ops,
                   m_H, m_rho0, m_nsteps, m_gradient_alg, m_qsolver, m_rho,
                   m_rho_save, m_k, m_grad>>

\* one time step of the backward pass; the state is then replaced by the
\* one saved at that time
MesolveBackwardStep ==
    /\ m_pc = "backward" /\ m_bk < m_nsteps
    /\ IF ~has_backward(m_impl, m_qsolver)
       THEN /\ m_pc' = "error" /\ m_err' = "NotImplementedError"
            /\ UNCHANGED <<m_rho, m_phi, m_bk>>
       ELSE /\ m_pc' = m_pc /\ m_err' = m_err
            /\ m_phi' = scheme_backward(m_qsolver, m_rho, m_phi, m_H,
                                        m_jump_ops, m_dt)[2]
            /\ m_rho' = m_rho_save[m_nsteps - m_bk]
            /\ m_bk' = m_bk + 1
    /\ UNCHANGED <<drivervars, advars, utilvars, auxvars, m_impl, m_solver, m_jump_ops, m_H,
                   m_rho0, m_nsteps, m_gradient_alg, m_qsolver, m_rho_save,
                   m_k, m_grad>>

\* the backward pass is over: the gradients are returned
MesolveBackwardReturn ==
    /\ m_pc = "backward" /\ m_bk = m_nsteps
    /\ m_pc' = "done" /\ m_grad' = "returned"
    /\ UNCHANGED <<drivervars, advars, utilvars, auxvars, m_err, m_impl, m_solver, m_jump_ops,
                   m_H, m_rho0, m_nsteps, m_gradient_alg, m_qsolver, m_rho,
                   m_rho_save, m_k, m_phi, m_bk>>

MesolveNext ==
    \/ Mesolve
    \/ MesolveForward
    \/ MesolveReturn
    \/ MesolveBackward
    \/ MesolveBackwardStep
    \/ MesolveBackwardReturn

SpecMesolve == MesolveInit /\ [][MesolveNext]_vars

\* ------------------------------------------------------- time arrays
\* An array is its number of dimensions and its elements in order; an
\* element is a number or NaN.
MaxLen == 3
MaxTime == 2

NaN == <<"nan", 0>>
Num(v) == <<"num", v>>
TimeElems == {Num(v) : v \in -1..MaxTime} \cup {NaN}

RECURSIVE SeqsUpTo(_, _)
SeqsUpTo(S, n) ==
    IF n = 0 THEN {<<>>}
    ELSE LET shorter == SeqsUpTo(S, n - 1)
         IN  shorter \cup {Append(s, e) : s \in shorter, e \in S}

CheckedArrays == [ndim : 0..2, elems : SeqsUpTo(TimeElems, MaxLen)]

\* a > b and a >= b on elements: a comparison with NaN is false
Greater(p, q) == p[1] = "num" /\ q[1] = "num" /\ p[2] > q[2]
GreaterEq(p, q) == p[1] = "num" /\ q[1] = "num" /\ p[2] >= q[2]

\* jnp.all(jnp.diff(x) > 0)
diff_positive(e) == \A i \in 1..(Len(e) - 1) : Greater(e[i + 1], e[i])

\* jnp.all(x >= 0)
all_nonnegative(e) == \A i \in 1..Len(e) : GreaterEq(e[i], Num(0))

\* check_time_array with the sign looked at before the ordering
check_time_array_sign_first(x, allow_empty) ==
    IF x.ndim # 1 THEN "1D array"
    ELSE IF ~allow_empty /\ Len(x.elems) = 0 THEN "at least one element"
    ELSE IF ~all_nonnegative(x.elems) THEN "positive values only"
    ELSE IF ~diff_positive(x.elems) THEN "strictly ascending"
    ELSE "ok"

\* check_time_array(x, arg_name, allow_empty): "ok" when it returns, and
\* otherwise what the message of the ValueError asks for
check_time_array(x, allow_empty) ==
    IF x.ndim # 1 THEN "1D array"
    ELSE IF ~allow_empty /\ Len(x.elems) = 0 THEN "at least one element"
    ELSE IF ~diff_positive(x.elems) THEN "strictly ascending"
    ELSE IF ~all_nonnegative(x.elems) THEN "positive values only"
    ELSE "ok"

TimeInit ==
    /\ DriverOff /\ AdaptiveOff /\ MesolveOff /\ SparseOff /\ AuxOff
    /\ ct_pc = "call" /\ ct_res = "none"
    /\ ct_x \in CheckedArrays
    /\ ct_allow_empty \in BOOLEAN

CheckTimeArray ==
    /\ ct_pc = "call"
    /\ ct_res' = check_time_array(ct_x, ct_allow_empty)
    /\ ct_pc' = IF ct_res' = "ok" THEN "returned" ELSE "error"
    /\ UNCHANGED <<drivervars, advars, mevars, spvars, auxvars, ct_x,
                   ct_allow_empty>>

TimeNext == CheckTimeArray

SpecTime == TimeInit /\ [][TimeNext]_vars

\* ---------------------------------------------------- sparse arrays
\* A dense matrix is the sequence of its rows. A SparseQArray is the record
\* of its fields offsets, diags and dims; what a field holds is kept with
\* its type, a tuple of integers or an array of rows.
Dim == 2
MaxNonzero == 2
Entries == {1, 2}

Tuple(v) == [tag |-> "tuple", v |-> v]
ArrayOf(v) == [tag |-> "array", v |-> v]

Dense(m) == [kind |-> "dense", val |-> m]
Sparse(s) == [kind |-> "sparse", val |-> s]
Raised(e) == [kind |-> "error", val |-> e]
PyInt(v) == [kind |-> "int", val |-> v]

Indices == (1..Dim) \X (1..Dim)
ZeroMatrix == [r \in 1..Dim |-> [c \in 1..Dim |-> 0]]
Band(k, v) ==
    [r \in 1..Dim |-> [c \in 1..Dim |-> IF c - r = k THEN v ELSE 0]]
MatAdd(p, q) == [r \in 1..Dim |-> [c \in 1..Dim |-> p[r][c] + q[r][c]]]
MatSub(p, q) == [r \in 1..Dim |-> [c \in 1..Dim |-> p[r][c] - q[r][c]]]
RowAdd(p, q) == [c \in 1..Dim |-> p[c] + q[c]]
RowSub(p, q) == [c \in 1..Dim |-> p[c] - q[c]]
RowScale(k, p) == [c \in 1..Dim |-> k * p[c]]

Matrices ==
    {m \in [1..Dim -> [1..Dim -> {0} \cup Entries]] :
        Cardinality({ij \in Indices : m[ij[1]][ij[2]] # 0}) <= MaxNonzero}
BandMatrices ==
    {ZeroMatrix} \cup {Band(k, v) : k \in (1 - Dim)..(Dim - 1), v \in Entries}

\* tuple(sorted(S))
RECURSIVE sorted(_)
sorted(S) ==
    IF S = {} THEN <<>>
    ELSE LET lo == CHOOSE k \in S : \A l \in S : k <= l
         IN  <<lo>> \o sorted(S \ {lo})

\* SparseQArray(...) with positional arguments: the fields are declared in
\* the order offsets, diags, dims
SparseQArray(first, second, third) ==
    [offsets |-> first, diags |-> second, dims |-> third]

\* the number of pairs of zip(x.offsets, x.diags)
zip_len(x) ==
    IF Len(x.offsets.v) <= Len(x.diags.v) THEN Len(x.offsets.v)
    ELSE Len(x.diags.v)

\* the pairs of zip(x.offsets, x.diags) are (integer, row) pairs
zip_typed(x) ==
    zip_len(x) = 0 \/ (x.offsets.tag = "tuple" /\ x.diags.tag = "array")

\* find_offsets(other): the sorted offsets j - i of the nonzero entries
find_offsets(other) ==
    Tuple(sorted({ij[2] - ij[1] :
                    ij \in {kl \in Indices : other[kl[1]][kl[2]] # 0}}))

\* produce_dia(offsets, other): row i holds the diagonal offsets[i], the
\* entry of column c at position c, and zeros elsewhere
produce_dia(offsets, other) ==
    ArrayOf([i \in 1..Len(offsets.v) |->
               [c \in 1..Dim |->
                  IF c - offsets.v[i] \in 1..Dim
                  THEN other[c - offsets.v[i]][c] ELSE 0]])

\* to_sparse(x)
to_sparse(x) ==
    SparseQArray(produce_dia(find_offsets(x), x), find_offsets(x), Dim)

\* the sum over the pairs i.. of zip(x.offsets, x.diags) of the entry (r, c)
\* of jnp.diag(diag[start:end], k=offset)
RECURSIVE diag_sum(_, _, _, _)
diag_sum(x, r, c, i) ==
    IF i > zip_len(x) THEN 0
    ELSE (IF x.offsets.v[i] = c - r THEN x.diags.v[i][c] ELSE 0)
         + diag_sum(x, r, c, i + 1)

\* to_dense(x); max(0, offset) raises when offset is a row of an array
to_dense(x) ==
    IF ~zip_typed(x) THEN Raised("ValueError")
    ELSE Dense([r \in 1..Dim |-> [c \in 1..Dim |-> diag_sum(x, r, c, 1)]])

\* dict(zip(x.offsets, x.diags)) after the pairs up to i
RECURSIVE dict_zip(_, _)
dict_zip(x, i) ==
    IF i = 0 THEN <<>>
    ELSE LET d == dict_zip(x, i - 1)
             k == x.offsets.v[i]
         IN  [l \in DOMAIN d \cup {k} |-> IF l = k THEN x.diags.v[i] ELSE d[l]]

\* the loop of _add_sparse (sign = 1) and of _sub_sparse (sign = -1) over
\* the pairs up to i of other
RECURSIVE merge_zip(_, _, _, _)
merge_zip(out, other, sign, i) ==
    IF i = 0 THEN out
    ELSE LET d == merge_zip(out, other, sign, i - 1)
             k == other.offsets.v[i]
             row == RowScale(sign, other.diags.v[i])
         IN  [l \in DOMAIN d \cup {k} |->
                IF l # k THEN d[l]
                ELSE IF k \in DOMAIN d THEN RowAdd(d[k], row) ELSE row]

_check_compatible_dims(dims1, dims2) == dims1 = dims2

\* _add_sparse: a row of an array cannot be the key of a dict, and
\* jnp.stack needs at least one diagonal
_add_sparse(self, other) ==
    IF ~zip_typed(self) \/ ~zip_typed(other) THEN Raised("TypeError")
    ELSE LET d == merge_zip(dict_zip(self, zip_len(self)), other, 1,
                            zip_len(other))
             out_offsets == sorted(DOMAIN d)
         IN  IF out_offsets = <<>> THEN Raised("ValueError")
             ELSE Sparse(SparseQArray(
                      Tuple(out_offsets),
                      ArrayOf([i \in 1..Len(out_offsets) |-> d[out_offsets[i]]]),
                      self.dims))

\* _sub_sparse
_sub_sparse(self, other) ==
    IF ~zip_typed(self) \/ ~zip_typed(other) THEN Raised("TypeError")
    ELSE LET d == merge_zip(dict_zip(self, zip_len(self)), other, -1,
                            zip_len(other))
             out_offsets == sorted(DOMAIN d)
         IN  Sparse(SparseQArray(
                 Tuple(out_offsets),
                 ArrayOf([i \in 1..Len(out_offsets) |-> d[out_offsets[i]]]),
                 self.dims))

\* array + other and array - other for the result of to_dense
dense_add(p, other) ==
    IF p.kind = "error" THEN p ELSE Dense(MatAdd(p.val, other.val))
dense_sub(p, other) ==
    IF p.kind = "error" THEN p ELSE Dense(MatSub(p.val, other.val))

\* SparseQArray.__add__ for an array or a SparseQArray
add(self, other) ==
    IF other.kind = "dense" THEN dense_add(to_dense(self), other)
    ELSE IF other.kind = "sparse"
    THEN IF ~_check_compatible_dims(self.dims, other.val.dims)
         THEN Raised("ValueError")
         ELSE _add_sparse(self, other.val)
    ELSE Raised("TypeError")

\* SparseQArray.__radd__
radd(self, other) == add(self, other)

\* SparseQArray.__sub__ for an array or a SparseQArray
sub(self, other) ==
    IF other.kind = "dense" THEN dense_sub(to_dense(self), other)
    ELSE IF other.kind = "sparse"
    THEN IF ~_check_compatible_dims(self.dims, other.val.dims)
         THEN Raised("ValueError")
         ELSE _sub_sparse(self, other.val)
    ELSE Raised("TypeError")

\* SparseQArray.__mul__ for a scalar: isinstance(other, (complex, Scalar))
\* holds for a Python complex and for a jax array of shape (), and any
\* other scalar gets NotImplemented, which the operator * turns into a
\* TypeError, as it does the product of such a scalar and a tuple
mul(self, other) ==
    IF other.kind \in {"complex", "Scalar"} /\ self.diags.tag = "array"
    THEN Sparse(SparseQArray(
             self.offsets,
             ArrayOf([i \in 1..Len(self.diags.v) |->
                        RowScale(other.val, self.diags.v[i])]),
             self.dims))
    ELSE Raised("TypeError")

\* SparseQArray.__rmul__
rmul(self, other) == mul(self, other)

\* SparseQArray.__neg__: -1 * self
neg(self) == rmul(self, PyInt(-1))

\* SparseQArray.__rsub__: -self + other
rsub(self, other) ==
    IF neg(self).kind = "error" THEN neg(self)
    ELSE add(neg(self).val, other)

\* x.to_dense() for the result of an operation
result_to_dense(x) == IF x.kind = "sparse" THEN to_dense(x.val) ELSE x

\* the sparse operand of the matrix m: to_sparse(m), or the SparseQArray
\* of its offsets and diagonals
sparse_operand(build, m) ==
    IF build = "to_sparse" THEN to_sparse(m)
    ELSE SparseQArray(find_offsets(m), produce_dia(find_offsets(m), m), Dim)

SparseInit ==
    /\ DriverOff /\ AdaptiveOff /\ MesolveOff /\ TimeOff /\ AuxOff
    /\ sp_pc = "new"
    /\ sp_A \in Matrices
    /\ sp_B \in BandMatrices
    /\ sp_op \in {"add", "sub"}
    /\ sp_kind \in {"sparse_sparse", "sparse_dense", "dense_sparse"}
    /\ sp_build \in {"to_sparse", "SparseQArray"}
    /\ sp_sparse = "none" /\ sp_back = "none" /\ sp_out = "none"

\* to_sparse(A).to_dense()
Convert ==
    /\ sp_pc = "new"
    /\ sp_pc' = "converted"
    /\ sp_sparse' = to_sparse(sp_A)
    /\ sp_back' = to_dense(sp_sparse')
    /\ UNCHANGED <<drivervars, advars, mevars, ctvars, auxvars, sp_A, sp_B, sp_op,
                   sp_kind, sp_build, sp_out>>

\* A op B; an array on the left of a SparseQArray defers to the reflected
\* method of the SparseQArray
Arith ==
    /\ sp_pc = "converted"
    /\ sp_pc' = "done"
    /\ LET sA == sparse_operand(sp_build, sp_A)
           sB == sparse_operand(sp_build, sp_B)
       IN  sp_out' =
             IF sp_kind = "sparse_sparse"
             THEN IF sp_op = "add" THEN add(sA, Sparse(sB))
                  ELSE sub(sA, Sparse(sB))
             ELSE IF sp_kind = "sparse_dense"
             THEN IF sp_op = "add" THEN add(sA, Dense(sp_B))
                  ELSE sub(sA, Dense(sp_B))
             ELSE IF sp_op = "add" THEN radd(sB, Dense(sp_A))
                  ELSE rsub(sB, Dense(sp_A))
    /\ UNCHANGED <<drivervars, advars, mevars, ctvars, auxvars, sp_A, sp_B, sp_op,
                   sp_kind, sp_build, sp_sparse, sp_back>>

SparseNext == Convert \/ Arith

SpecSparse == SparseInit /\ [][SparseNext]_vars

\* ------------------------------------------------------------ floquet
\* The Hamiltonian is a batch of 1 x 1 time-dependent matrices, each given
\* by its values at 0 and at T; the norm of a 1 x 1 matrix is the absolute
\* value of its entry.
MaxBatch == 2
MaxPeriod == 2

PeriodTol == Q(1, 1000000)

HValues == {Q0, Q(1, 2000000), Q(1, 1000000), Q(1, 500000), Q1}
Hamiltonian == {<<Q0, atT>> : atT \in HValues} \cup {<<Q1, Q0>>, <<Q1, Q1>>}
Batches == UNION {[1..n -> Hamiltonian] : n \in 1..MaxBatch}

\* jnp.linalg.norm(H(0) - H(T), axis=(-2, -1)) of one element of the batch
period_norm(h) == QAbs(QSub(h[1], h[2]))

\* norm > 1e-6
above_tol(h) == ~QLeq(period_norm(h), PeriodTol)

\* the predicate of the second error_if of _check_floquet_args:
\* jnp.all(jnp.linalg.norm(H(0) - H(T), axis=(-2, -1)) > 1e-6)
not_periodic(H) == \A b \in 1..Len(H) : above_tol(H[b])

\* the predicate of the first error_if: tsave[-1] - tsave[0] > T
span_exceeds(tsave, T) == tsave[Len(tsave)] - tsave[1] > T

\* _check_floquet_args(H, T, tsave): the error raised, or "none"
_check_floquet_args(H, T, tsave) ==
    IF span_exceeds(tsave, T) THEN "span"
    ELSE IF not_periodic(H) THEN "not periodic"
    ELSE "none"

FloquetInit ==
    /\ DriverOff /\ AdaptiveOff /\ MesolveOff /\ UtilOff
    /\ LayoutOff /\ RunOff /\ StepOff /\ TstepOff
    /\ fl_pc = "call" /\ fl_err = "none"
    /\ fl_H \in Batches
    /\ fl_T \in 1..MaxPeriod
    /\ fl_tsave \in {<<0, l>> : l \in 1..(MaxPeriod + 1)}

\* floquet up to the end of _check_floquet_args
CheckFloquetArgs ==
    /\ fl_pc = "call"
    /\ fl_err' = _check_floquet_args(fl_H, fl_T, fl_tsave)
    /\ fl_pc' = IF fl_err' = "none" THEN "checked" ELSE "error"
    /\ UNCHANGED <<drivervars, advars, mevars, utilvars, lyvars, rnvars,
                   dpvars, itvars, fl_H, fl_T, fl_tsave>>

\* _vectorized_floquet runs the integrator and floquet returns its result
FloquetRun ==
    /\ fl_pc = "checked"
    /\ fl_pc' = "returned"
    /\ UNCHANGED <<drivervars, advars, mevars, utilvars, lyvars, rnvars,
                   dpvars, itvars, fl_H, fl_T, fl_tsave, fl_err>>

FloquetNext == CheckFloquetArgs \/ FloquetRun

SpecFloquet == FloquetInit /\ [][FloquetNext]_vars

\* ---------------------------------------------------- global settings
\* An argument is a value with its Python type; the two Layout objects are
\* dense and dia.
MaxCalls == 3

dense == [type |-> "Layout", val |-> "dense"]
dia == [type |-> "Layout", val |-> "dia"]
NoneArg == [type |-> "NoneType", val |-> "None"]
Str(v) == [type |-> "str", val |-> v]

SetArgs == {Str("dense"), Str("dia"), Str("csr"), Str(""), dense}
GetArgs == {NoneArg, dense, dia, Str("dense"), [type |-> "int", val |-> "0"]}

\* layouts = {'dense': dense, 'dia': dia}
layouts == [k \in {Str("dense"), Str("dia")} |->
              IF k = Str("dense") THEN dense ELSE dia]

\* set_layout that falls back to the initial default on an unknown name
set_layout_reset(default, layout) ==
    IF layout \notin DOMAIN layouts THEN <<dia, "ValueError">>
    ELSE <<layouts[layout], "ok">>

\* set_layout(layout): the new _DEFAULT_LAYOUT and the outcome
set_layout(default, layout) ==
    IF layout \notin DOMAIN layouts THEN <<default, "ValueError">>
    ELSE <<layouts[layout], "ok">>

\* get_layout(layout): the layout returned, or the exception raised
get_layout(default, layout) ==
    IF layout = NoneArg THEN default.val
    ELSE IF layout.type = "Layout" THEN layout.val
    ELSE "TypeError"

\* the module has been imported: _DEFAULT_LAYOUT = dia
LayoutInit ==
    /\ DriverOff /\ AdaptiveOff /\ MesolveOff /\ UtilOff
    /\ FloquetOff /\ RunOff /\ StepOff /\ TstepOff
    /\ ly_pc = "loaded" /\ ly_default = dia /\ ly_hist = <<>>

SetLayout ==
    /\ ly_pc = "loaded" /\ Len(ly_hist) < MaxCalls
    /\ \E layout \in SetArgs :
         /\ ly_default' = set_layout(ly_default, layout)[1]
         /\ ly_hist' = Append(ly_hist,
                              [op |-> "set_layout", arg |-> layout,
                               out |-> set_layout(ly_default, layout)[2]])
    /\ UNCHANGED <<drivervars, advars, mevars, utilvars, flvars, rnvars,
                   dpvars, itvars, ly_pc>>

GetLayout ==
    /\ ly_pc = "loaded" /\ Len(ly_hist) < MaxCalls
    /\ \E layout \in GetArgs :
         ly_hist' = Append(ly_hist,
                           [op |-> "get_layout", arg |-> layout,
                            out |-> get_layout(ly_default, layout)])
    /\ UNCHANGED <<drivervars, advars, mevars, utilvars, flvars, rnvars,
                   dpvars, itvars, ly_pc, ly_default>>

LayoutNext == SetLayout \/ GetLayout

SpecLayout == LayoutInit /\ [][LayoutNext]_vars

\* ---------------------------------------------------------- Solver.run
MaxClock == 2
MaxTick == 2

\* Solver._run
Solver_run(alg) == IF alg = "none" THEN <<"run_nograd">> ELSE <<>>

\* AutogradSolver._run with run_autograd called for every gradient_alg
AutogradSolver_run_always(alg) == Solver_run(alg) \o <<"run_autograd">>

\* AutogradSolver._run: super()._run(), then run_autograd for 'autograd'
AutogradSolver_run(alg) ==
    Solver_run(alg)
      \o (IF alg = "autograd" THEN <<"run_autograd">> ELSE <<>>)

\* AdjointSolver._run: super()._run(), then run_adjoint for 'adjoint'
AdjointSolver_run(alg) ==
    AutogradSolver_run(alg)
      \o (IF alg = "adjoint" THEN <<"run_adjoint">> ELSE <<>>)

\* self._run() of a solver of class cls: the methods it calls, in order
_run(cls, alg) ==
    IF cls = "AdjointSolver" THEN AdjointSolver_run(alg)
    ELSE AutogradSolver_run(alg)

\* the methods entered by a call of method m at depth d: run_nograd calls
\* run_autograd, and run_adjoint calls AdjointAutograd.apply, whose forward
\* calls run_nograd
RECURSIVE entered(_, _)
entered(m, d) ==
    IF m = "run_autograd" THEN <<<<m, d>>>>
    ELSE IF m = "run_nograd" THEN <<<<m, d>>>> \o entered("run_autograd", d + 1)
    ELSE <<<<m, d>>>> \o entered("run_nograd", d + 1)

\* the calls made by _run so far
top_level(cs) == SelectSeq(cs, LAMBDA c : c[2] = 1)

RunInit ==
    /\ DriverOff /\ AdaptiveOff /\ MesolveOff /\ UtilOff
    /\ FloquetOff /\ LayoutOff /\ StepOff /\ TstepOff
    /\ rn_pc = "call"
    /\ rn_class \in {"AutogradSolver", "AdjointSolver"}
    /\ rn_alg \in {"none", "autograd", "adjoint", "other"}
    /\ rn_clock \in 0..MaxClock
    /\ rn_calls = <<>> /\ rn_integrations = <<>>
    /\ rn_start = 0 /\ rn_end = 0

\* Solver.run: self.result.start_time = time()
RunStart ==
    /\ rn_pc = "call"
    /\ rn_pc' = "_run"
    /\ rn_start' = rn_clock
    /\ \E d \in 0..MaxTick : rn_clock' = rn_clock + d
    /\ UNCHANGED <<drivervars, advars, mevars, utilvars, flvars, lyvars,
                   dpvars, itvars, rn_class, rn_alg, rn_calls, rn_integrations,
                   rn_end>>

\* the next call of _run, down to the integration run_autograd performs
RunMethod ==
    /\ rn_pc = "_run"
    /\ Len(top_level(rn_calls)) < Len(_run(rn_class, rn_alg))
    /\ LET m == _run(rn_class, rn_alg)[Len(top_level(rn_calls)) + 1]
       IN  rn_calls' = rn_calls \o entered(m, 1)
    /\ \E d \in 1..MaxTick :
         /\ rn_integrations' = Append(rn_integrations,
                                      <<rn_clock, rn_clock + d>>)
         /\ rn_clock' = rn_clock + d
    /\ UNCHANGED <<drivervars, advars, mevars, utilvars, flvars, lyvars,
                   dpvars, itvars, rn_pc, rn_class, rn_alg, rn_start, rn_end>>

\* _run has returned: self.result.end_time = time()
RunEnd ==
    /\ rn_pc = "_run"
    /\ Len(top_level(rn_calls)) = Len(_run(rn_class, rn_alg))
    /\ rn_pc' = "done"
    /\ rn_end' = rn_clock
    /\ UNCHANGED <<drivervars, advars, mevars, utilvars, flvars, lyvars,
                   dpvars, itvars, rn_class, rn_alg, rn_calls, rn_integrations,
                   rn_clock, rn_start>>

RunNext == RunStart \/ RunMethod \/ RunEnd

SpecRun == RunInit /\ [][RunNext]_vars

\* ------------------------------------------------------ DormandPrince5
\* A state is the linear combination y0 + dt * sum_b w[b] * k[b] over the
\* stages of the step it was formed in (step 0: the initial state), and a
\* derivative is the time and the state f was evaluated at. A tensor is
\* its dtype and its entries, which are exact fractions.
MaxStepCalls == 3

Dtypes == {"complex64", "complex128"}
dtype_complex_to_real(dtype) ==
    IF dtype = "complex64" THEN "float32" ELSE "float64"

Y(n, w) == [step |-> n, w |-> w]
F(tm, yy) == [t |-> tm, y |-> yy]

csol5 ==
    <<Q(35, 384), Q0, Q(500, 1113), Q(125, 192), Q(-2187, 6784), Q(11, 84),
      Q0>>
csol4 ==
    <<Q(1951, 21600), Q0, Q(22642, 50085), Q(451, 720), Q(-12231, 42400),
      Q(649, 6300), Q(1, 60)>>
alpha == <<Q(1, 5), Q(3, 10), Q(4, 5), Q(8, 9), Q1, Q1, Q0>>
beta ==
    << <<Q(1, 5), Q0, Q0, Q0, Q0, Q0, Q0>>,
       <<Q(3, 40), Q(9, 40), Q0, Q0, Q0, Q0, Q0>>,
       <<Q(44, 45), Q(-56, 15), Q(32, 9), Q0, Q0, Q0, Q0>>,
       <<Q(19372, 6561), Q(-25360, 2187), Q(64448, 6561), Q(-212, 729), Q0,
         Q0, Q0>>,
       <<Q(9017, 3168), Q(-355, 33), Q(46732, 5247), Q(49, 176),
         Q(-5103, 18656), Q0, Q0>>,
       <<Q(35, 384), Q0, Q(500, 1113), Q(125, 192), Q(-2187, 6784),
         Q(11, 84), Q0>> >>

\* s[:n]
Take(s, n) == SubSeq(s, 1, n)

\* build_tableau whose last stage has the weights of the 4th-order solution
build_tableau_csol4(target) ==
    << <<dtype_complex_to_real(target), alpha>>,
       <<target, [beta EXCEPT ![6] = csol4]>>,
       <<target, csol5>>,
       <<target, [b \in 1..7 |-> QSub(csol5[b], csol4[b])]>> >>

\* build_tableau(target): alpha, beta, csol5, csol5 - csol4
build_tableau(target) ==
    << <<dtype_complex_to_real(target), alpha>>,
       <<target, beta>>,
       <<target, csol5>>,
       <<target, [b \in 1..7 |-> QSub(csol5[b], csol4[b])]>> >>

\* the test of step for building the tableau, true at every call
needs_tableau_always(tableau) == TRUE

\* if self.tableau is None
needs_tableau(tableau) == tableau = None

\* k[i] for i in range(1, 7), in the step number n from time tm with the
\* step size dtq
stage(tableau, n, tm, dtq, i) ==
    F(QAdd(tm, QMul(dtq, tableau[1][2][i])), Y(n, Take(tableau[2][2][i], i)))

\* DormandPrince5.step: the evaluations of f, and f1, y1, y1_err
step(tableau, n, tm, dtq) ==
    LET k == [i \in 1..6 |-> stage(tableau, n, tm, dtq, i)]
    IN  [evals |-> k,
         out |-> <<k[6], Y(n, Take(tableau[3][2], 6)), Y(n, tableau[4][2])>>]

StepInputs == [dtype : Dtypes, t0 : {Q0, Q1}, dt : {QHalf, Q(1, 10), Q1}]

\* the integrator after __init__, and the arguments of its first step:
\* f0 is f(t0, y0)
StepInit ==
    /\ DriverOff /\ AdaptiveOff /\ MesolveOff /\ UtilOff
    /\ FloquetOff /\ LayoutOff /\ RunOff /\ TstepOff
    /\ dp_pc = "ready" /\ dp_tableau = None /\ dp_builds = 0
    /\ dp_steps = 0 /\ dp_evals = <<>> /\ dp_out = <<>>
    /\ \E arg \in StepInputs :
         dp_in = [dtype |-> arg.dtype, t0 |-> arg.t0, dt |-> arg.dt,
                  y0 |-> Y(0, <<>>), f0 |-> F(arg.t0, Y(0, <<>>))]

\* one call of step
Step ==
    /\ dp_pc = "ready" /\ dp_steps < MaxStepCalls
    /\ IF needs_tableau(dp_tableau)
       THEN /\ dp_tableau' = build_tableau(dp_in.dtype)
            /\ dp_builds' = dp_builds + 1
       ELSE UNCHANGED <<dp_tableau, dp_builds>>
    /\ dp_evals' = step(dp_tableau', dp_steps + 1, dp_in.t0, dp_in.dt).evals
    /\ dp_out' = step(dp_tableau', dp_steps + 1, dp_in.t0, dp_in.dt).out
    /\ dp_steps' = dp_steps + 1
    /\ dp_pc' = "stepped"
    /\ UNCHANGED <<drivervars, advars, mevars, utilvars, flvars, lyvars,
                   rnvars, itvars, dp_in>>

\* the caller accepts the step and goes on from t0 + dt with y1 and f1, or
\* rejects it and tries again from t0, with a new step size
NextStep ==
    /\ dp_pc = "stepped"
    /\ dp_pc' = "ready"
    /\ \E accept \in BOOLEAN, dtq \in {QHalf, Q(1, 10), Q1} :
         dp_in' = IF accept
                  THEN [dtype |-> dp_in.dtype,
                        t0 |-> QAdd(dp_in.t0, dp_in.dt), dt |-> dtq,
                        y0 |-> dp_out[2], f0 |-> dp_out[1]]
                  ELSE [dp_in EXCEPT !.dt = dtq]
    /\ UNCHANGED <<drivervars, advars, mevars, utilvars, flvars, lyvars,
                   rnvars, itvars, dp_tableau, dp_builds, dp_steps, dp_evals,
                   dp_out>>

StepNext == Step \/ NextStep

SpecStep == StepInit /\ [][StepNext]_vars

\* ------------------------------------------------------------ init_tstep
\* AdaptiveIntegrator.init_tstep on the three scales it works with: d0 and d1
\* are the norms of y0 and f0, d2 is the norm of f1 - f0 over h0.  The scales
\* are decimal-exponent rationals, as in the step controller above.

\* x ** (1.0 / k) for a rational whose numerator, denominator and power of
\* ten are k-th powers.
PowInv(x, k) == Norm(Root(x[1], k), Root(x[2], k), x[3] \div k)

Epsilon15 == <<1, 1, -15>>
Hundredth == <<1, 1, -2>>
Thousandth == <<1, 1, -3>>
Millionth == <<1, 1, -6>>
Hundred == <<1, 1, 2>>

\* The scales below the 1e-15 threshold, at it, and just above it.
SmallScales == {Zero, <<1, 1, -16>>, Epsilon15, <<1, 1, -14>>}
\* The scales m for which 0.01 / m has an exact 6th root.
RootScales == {<<1, 1, -8>>, <<1, 64, -2>>, Hundredth, <<64, 1, -2>>,
               <<1, 1, 4>>}

init_tstep_min(s0, s1, s2) ==
    LET h_0 == init_h0(s0, s1)
        fallback == RLeq(s1, Epsilon15) /\ RLeq(s2, Epsilon15)
        m == RMax(s1, s2)
        h_1 == IF fallback
               THEN RMin(Millionth, RMul(h_0, Thousandth))
               ELSE PowInv(RDiv(Hundredth, m), order + 1)
    IN  [h0 |-> h_0, h1 |-> h_1, dt |-> RMin(RMul(Hundred, h_0), h_1),
         divisors |-> (IF RLess(s0, Tiny) \/ RLess(s1, Tiny) THEN {}
                       ELSE {s1})
                      \cup {h_0} \cup (IF fallback THEN {} ELSE {m})]

init_tstep(s0, s1, s2) ==
    LET h_0 == init_h0(s0, s1)
        fallback == RLeq(s1, Epsilon15) /\ RLeq(s2, Epsilon15)
        m == RMax(s1, s2)
        h_1 == IF fallback
               THEN RMax(Millionth, RMul(h_0, Thousandth))
               ELSE PowInv(RDiv(Hundredth, m), order + 1)
    IN  [h0 |-> h_0, h1 |-> h_1, dt |-> RMin(RMul(Hundred, h_0), h_1),
         divisors |-> (IF RLess(s0, Tiny) \/ RLess(s1, Tiny) THEN {}
                       ELSE {s1})
                      \cup {h_0} \cup (IF fallback THEN {} ELSE {m})]

TstepInit ==
    /\ DriverOff /\ AdaptiveOff /\ MesolveOff /\ UtilOff
    /\ FloquetOff /\ LayoutOff /\ RunOff /\ StepOff
    /\ it_pc = "start"
    /\ it_d0 \in Scales
    /\ it_d1 \in SmallScales \cup RootScales
    /\ it_d2 \in SmallScales \cup RootScales
    /\ it_out = <<>>

Tstep ==
    /\ it_pc = "start"
    /\ it_out' = init_tstep(it_d0, it_d1, it_d2)
    /\ it_pc' = "done"
    /\ UNCHANGED <<drivervars, advars, mevars, utilvars, flvars, lyvars,
                   rnvars, dpvars, it_d0, it_d1, it_d2>>

TstepNext == Tstep

SpecTstep == TstepInit /\ [][TstepNext]_vars

\* -------------------------------------------------------- specification
Init == DriverInit /\ AdaptiveOff /\ ExtOff

Next ==
    \/ Run
    \/ Forward
    \/ AdaptiveForward
    \/ Save
    \/ Return
    \/ BackwardInit
    \/ BackwardSegment
    \/ BackwardReturn

Spec == Init /\ [][Next]_vars

\* ------------------------------------------------- what the claims speak of
\* the state the scheme reaches at the save time of slot k: the scheme
\* applied at t0, t0 + dt, ... up to t_save[k] - dt (fixed step), or one
\* adaptive integration per stop time up to t_save[k]
StateAt(k) ==
    IF variant = "fixed"
    THEN Y0 \o [j \in 1..((t_save[k] - t0) \div dt) |->
                   <<"fwd", t0 + (j - 1) * dt>>]
    ELSE Y0 \o [j \in 1..k |-> <<"afw", t_save[j]>>]

NotMultiple(tms) == \E i \in 1..Len(tms) : tms[i] % dt # 0

Forwarding == pc \in {"integrate", "ran"}
AfterRun == pc \in {"ran", "backward", "done"}
InBackward == gradient_alg = "adjoint" /\ pc \in {"backward", "done"}

\* C1: a fixed-step run with a save or measurement time that is not a
\* multiple of dt ends in ValueError before any forward step is applied and
\* before any state or expectation value is saved
C1_NonMultipleRejected ==
    (variant = "fixed" /\ pc # "init"
        /\ (NotMultiple(t_save) \/ NotMultiple(tmeas)))
    => /\ pc = "error" /\ err = "ValueError"
       /\ n_forward = 0 /\ y = Y0
       /\ t_stop_counter = 0 /\ t_save_counter = 0
       /\ \A k \in 1..N : y_writes[k] = 0 /\ exp_writes[k] = 0
       /\ save_states => \A k \in 1..N : y_save[k] = Zeros
       /\ n_exp > 0 => \A k \in 1..N : exp_save[k] = Zeros

C1_Witness ==
    /\ pc = "error" /\ err = "ValueError"
    /\ ~NotMultiple(tmeas)
    /\ N = 2 /\ t_save[1] % dt = 0 /\ t_save[2] % dt # 0

\* C2: save is invoked once per stop time in ascending order; its k-th
\* invocation writes the state reached at t_save[k] into slot k and the
\* expectation values into column k; no slot is written twice or out of
\* range; t_save_counter <= t_stop_counter <= len(t_save) always, and both
\* equal len(t_save) once the run has ended
C2_SaveOncePerStop ==
    /\ err # "IndexError"
    /\ t_save_counter <= t_stop_counter /\ t_stop_counter <= N
    /\ (Forwarding /\ t_stop_counter >= 1) => t = t_stop[t_stop_counter]
    /\ \A k \in 1..N :
        /\ y_writes[k] <= 1 /\ exp_writes[k] <= 1
        /\ save_states =>
             IF k <= t_stop_counter
             THEN y_save[k] = StateAt(k) /\ y_writes[k] = 1
             ELSE y_save[k] = Zeros /\ y_writes[k] = 0
        /\ n_exp > 0 =>
             IF k <= t_stop_counter
             THEN exp_save[k] = bexpect(StateAt(k)) /\ exp_writes[k] = 1
             ELSE exp_save[k] = Zeros /\ exp_writes[k] = 0
    /\ AfterRun => t_save_counter = N /\ t_stop_counter = N

C2_Witness ==
    /\ pc = "ran" /\ save_states /\ n_exp > 0 /\ N = 3
    /\ t_save_counter = 3 /\ variant = "fixed" /\ n_forward = 3

\* C3: without save_states the result holds no state until the last save
\* time and the state at t_save[-1] after the run, while the expectation
\* values of every save time are saved all the same
C3_OnlyFinalState ==
    ~save_states =>
       /\ t_save_counter < N => y_save = None
       /\ AfterRun => y_save = StateAt(N)
       /\ \A k \in 1..N : (k <= N - 1 => y_writes[k] = 0) /\ y_writes[k] <= 1
       /\ n_exp > 0 =>
            \A k \in 1..N :
                k <= t_save_counter =>
                    exp_save[k] = bexpect(StateAt(k)) /\ exp_writes[k] = 1
       /\ AfterRun => t_save_counter = N

C3_Witness ==
    /\ ~save_states /\ pc = "ran" /\ N = 3 /\ n_exp > 0
    /\ y_save = StateAt(3) /\ y_writes = <<0, 0, 1>>

\* the gradient terms attached to the save time of slot k
Contrib(k) ==
    (IF save_states \/ k = N THEN GradY(k) ELSE <<>>)
    \o (IF n_exp > 0 THEN GradE(k) ELSE <<>>)

\* the gradient terms of the slots N, N - 1, ..., N - i, in this order
RECURSIVE ContribDown(_)
ContribDown(i) ==
    IF i = 0 THEN Contrib(N) ELSE ContribDown(i - 1) \o Contrib(N - i)

IsGradTerm(tok) == tok[1] \in {"gy", "ge"}
EndsWith(s, x) ==
    Len(x) <= Len(s) /\ SubSeq(s, Len(s) - Len(x) + 1, Len(s)) = x
Decreasing(s) == \A i \in 1..(Len(s) - 1) : s[i] > s[i + 1]

\* C8: with save_states, the backward pass goes back to the stop times in
\* strictly decreasing order, and after its i-th segment, which ends at ts,
\* y is the forward snapshot of that same time ts, slot len(t_save) - 2 - i
\* of the buffer; the index never falls outside the buffer
C8_ReanchoredAtCheckpoint ==
    /\ gradient_alg = "adjoint" => err # "IndexError"
    /\ (InBackward /\ save_states) =>
         /\ Len(b_visited) = bi /\ Decreasing(b_visited)
         /\ bi >= 1 =>
              LET k == N - 2 - (bi - 1)
              IN /\ k >= 0 /\ k < N
                 /\ b_visited[bi] = t_save[k + 1]
                 /\ t = t_save[k + 1]
                 /\ y = y_save[k + 1]
                 /\ y = StateAt(k + 1)
         /\ pc = "done" => b_visited = Reverse(t_stop_backward)

C8_Witness ==
    /\ pc = "done" /\ save_states /\ N = 3 /\ bi = 2
    /\ y = y_save[1] /\ b_visited = <<t_save[2], t_save[1]>>

\* C9: the gradient attached to each save time is added to the adjoint
\* exactly once: that of the final save time before any backward
\* integration, that of every earlier save time right after the segment
\* that integrates back to it and before the next segment
C9_EachGradientAddedOnce ==
    InBackward =>
        /\ SelectSeq(a, IsGradTerm) = ContribDown(bi)
        /\ EndsWith(a, Contrib(N - bi))
        /\ bi = 0 => a = Contrib(N)
        /\ pc = "done" => bi = N - 1

C9_Witness ==
    /\ pc = "done" /\ save_states /\ n_exp > 0 /\ N = 3
    /\ variant = "adaptive"
    /\ a = GradY(3) \o GradE(3) \o <<<<"abw", t_save[2]>>>>
           \o GradY(2) \o GradE(2) \o <<<<"abw", t_save[1]>>>>
           \o GradY(1) \o GradE(1)

\* C11: the backward pass, fixed-step or adaptive, leaves the checkpoint
\* buffer as the forward pass wrote it: every slot holds the state the
\* forward pass reached at its save time and has been written once, although
\* y starts as a view of the last slot and is re-anchored to earlier slots
C11_CheckpointsReadOnly ==
    InBackward =>
        /\ y_save = IF save_states THEN [k \in 1..N |-> StateAt(k)]
                    ELSE StateAt(N)
        /\ y_writes = [k \in 1..N |-> IF save_states \/ k = N THEN 1 ELSE 0]

C11_Witness ==
    /\ pc = "done" /\ variant = "adaptive" /\ save_states /\ N = 3
    /\ bi = 2 /\ y = StateAt(1)
    /\ y_save = <<StateAt(1), StateAt(2), StateAt(3)>>

\* the times of the micro-steps of size dt that go back from hi to lo
MicroTimes(hi, lo) == [j \in 1..((hi - lo) \div dt) |-> hi - (j - 1) * dt]

\* the contributions dg of every micro-step of the segments that go back
\* from the save time of slot k to that of slot 1, for one parameter
RECURSIVE StepsDown(_)
StepsDown(k) ==
    IF k <= 1 THEN <<>>
    ELSE [j \in 1..Len(MicroTimes(t_save[k], t_save[k - 1])) |->
              <<"dg", MicroTimes(t_save[k], t_save[k - 1])[j]>>]
         \o StepsDown(k - 1)

\* C10: after the fixed-step backward pass the gradient of every parameter
\* is the sum, segment after segment and micro-step after micro-step, of the
\* contributions dg of every micro-step of every segment, and zero for a
\* parameter the steps do not depend on
C10_GradientIsSumOfSteps ==
    (pc = "done" /\ gradient_alg = "adjoint" /\ variant = "fixed") =>
        g = [p \in 1..NumParams |-> IF uses[p] THEN StepsDown(N) ELSE <<>>]

IsBwd(tok) == tok[1] = "bwd"

\* the calls of backward_augmented of the first i segments of the backward
\* pass: segment j goes back from the save time of slot N - j + 1 to that of
\* slot N - j in micro-steps of size dt, each at the time it steps back from
RECURSIVE BwdDown(_)
BwdDown(i) ==
    IF i = 0 THEN <<>>
    ELSE BwdDown(i - 1)
         \o [j \in 1..Len(MicroTimes(t_save[N - i + 1], t_save[N - i])) |->
                <<"bwd", MicroTimes(t_save[N - i + 1], t_save[N - i])[j]>>]

\* C12: in the fixed-step backward pass every segment from t back to ts is
\* cut into (t - ts) / dt micro-steps of size dt, as many as the forward
\* pass took, each calling backward_augmented at the time of the state it
\* steps back from; no segment raises
C12_SegmentMicroSteps ==
    (gradient_alg = "adjoint" /\ variant = "fixed") =>
        /\ err # "RuntimeError"
        /\ InBackward => SelectSeq(a, IsBwd) = BwdDown(bi)

\* C13: in the adaptive backward pass the step size every segment starts
\* with is the one init_tstep derives at the start of that segment, at the
\* checkpoint the state was re-anchored to, and not a step size carried over
\* from the segment before
C13_TstepRederivedPerSegment ==
    (InBackward /\ variant = "adaptive") =>
        \A i \in 1..Len(seg_dt) :
            seg_dt[i] = init_tstep_augmented(t_save[N - i + 1])

Stepped == ad_n' = ad_n + 1

\* C4: a rejected step (error > 1) changes neither time nor state, the
\* trial after it starts from the same point with a strictly smaller step,
\* time advances on accepted steps only, and no rejection ends in an error
C4_RejectedStepRetries ==
    [][/\ (Stepped /\ RLess(One, ad_err')) => (ad_t' = ad_t /\ ad_y' = ad_y)
       /\ (Stepped /\ RLess(One, ad_err)) => RLess(ad_dt', ad_dt)
       /\ ad_t' # ad_t => (Stepped /\ RLeq(ad_err', One))
       /\ ad_pc' # "error" /\ err' = "none"]_vars

C4_Witness ==
    /\ ad_pc = "loop" /\ ad_n = 2 /\ ad_t = Zero /\ ad_y = <<>>
    /\ RLess(One, last_err) /\ RLess(One, ad_err)
    /\ RLess(ad_dt, last_dt)

\* C5: update_tstep(dt, 0) is dt * max_factor, and update_tstep(dt, error)
\* is strictly less than dt for every error above 1 and dt > 0
C5_ZeroErrorAndRejection ==
    (ad_n >= 1 /\ RLess(Zero, last_dt)) =>
        /\ last_err = Zero => ad_dt = RMul(last_dt, max_factor)
        /\ RLess(One, last_err) => RLess(ad_dt, last_dt)

C5_Witness ==
    /\ ad_n >= 1 /\ last_err = Zero /\ last_dt = <<5, 1, -1>>
    /\ ad_dt = <<25, 1, -1>>

\* C6: for dt > 0 and error > 0 the new step over the old one lies within
\* [1, max_factor] when the step is accepted (error <= 1) and within
\* [min_factor, 0.9] when it is rejected (error > 1)
C6_FactorBounds ==
    (ad_n >= 1 /\ RLess(Zero, last_dt) /\ RLess(Zero, last_err)) =>
        IF RLeq(last_err, One)
        THEN /\ RLeq(last_dt, ad_dt)
             /\ RLeq(ad_dt, RMul(max_factor, last_dt))
        ELSE /\ RLeq(RMul(min_factor, last_dt), ad_dt)
             /\ RLeq(ad_dt, RMul(<<9, 1, -1>>, last_dt))

C6_Witness ==
    /\ ad_n >= 1 /\ RLess(Zero, last_dt) /\ RLess(One, last_err)
    /\ RLess(RMul(min_factor, last_dt), ad_dt)
    /\ RLess(ad_dt, RMul(<<9, 1, -1>>, last_dt))

Negligible(s) == RLess(s, Tiny)

\* C7 as stated: h0 is 0.01 * d0 / d1 unless both d0 and d1 are below
\* 1e-5, and 1e-6 then
C7_BothNegligible ==
    ad_pc # "new" =>
        IF Negligible(d0) /\ Negligible(d1) THEN h0 = <<1, 1, -6>>
        ELSE RMul(h0, d1) = RMul(<<1, 1, -2>>, d0)

\* C7, amended: h0 is 1e-6 as soon as one of d0, d1 is below 1e-5, and
\* 0.01 * d0 / d1 when neither is
C7_EitherNegligible ==
    ad_pc # "new" =>
        IF Negligible(d0) \/ Negligible(d1) THEN h0 = <<1, 1, -6>>
        ELSE RMul(h0, d1) = RMul(<<1, 1, -2>>, d0)

C7_Witness ==
    /\ ad_pc = "loop" /\ Negligible(d1) /\ ~Negligible(d0)
    /\ h0 = <<1, 1, -6>>

\* ----------------------------------------------------- claims on mesolve
RouchonClasses == {"MERouchon1", "MERouchon1_5", "MERouchon2"}

\* the schemes without a backward step: order 1.5 of mesolve/rouchon.py and
\* the three orders of mesolve.py
Unimplemented ==
    \/ m_impl = "package" /\ m_qsolver = "MERouchon1_5"
    \/ m_impl = "single" /\ m_qsolver \in RouchonClasses

C15_EmptyJumpOpsRejected ==
    (m_impl \in {"single", "package"} /\ m_jump_ops = <<>> /\ m_pc # "call") =>
        /\ m_pc = "error" /\ m_err = "ValueError"
        /\ m_qsolver = "none"
        /\ m_k = 0 /\ m_rho = <<>> /\ m_rho_save = <<>>
        /\ m_grad = "none"

C15_Witness ==
    /\ m_pc = "error" /\ m_err = "ValueError" /\ m_jump_ops = <<>>
    /\ m_solver[1] = "Other" /\ m_qsolver = "none" /\ m_nsteps = 2

\* the unitary evolution U(t) rho(0) U(t)^dagger of a diagonal state under a
\* diagonal Hamiltonian is rho(0); the tolerance after k steps is the
\* truncation error k * dt^2 * max(H^2) of the schemes
QMax(x, z) == IF QLeq(x, z) THEN z ELSE x
Tolerance(k) ==
    QMul(Q(k, 1), QMul(QMul(m_dt, m_dt),
                       QMax(QMul(m_H[1], m_H[1]), QMul(m_H[2], m_H[2]))))
CloseToUnitary(rho, k) ==
    \A l \in 1..2 : QLeq(QAbs(QSub(rho[l], m_rho0[l])), Tolerance(k))

AllZero(ops) == \A j \in 1..Len(ops) : ops[j] = Q0
ValidSolver ==
    m_solver[1] = "None" \/ (m_solver[1] = "Rouchon" /\ m_solver[2] \in {10, 15, 20})

\* the run is not stopped by an error and every state it has saved is the
\* unitary evolution within tolerance
UnitaryRun ==
    /\ m_pc \in {"forward", "returned"} /\ m_err = "none"
    /\ m_pc = "returned" => Len(m_rho_save) = m_nsteps + 1
    /\ \A i \in 1..Len(m_rho_save) : CloseToUnitary(m_rho_save[i], i - 1)

TraceTol == Q(1, 1000)
C18_TraceOne ==
    \A i \in 1..Len(m_rho_save) :
        QLeq(QAbs(QSub(trace(m_rho_save[i]), Q1)), TraceTol)

\* ------------------------------------------------------------ C17
OneDimensional == ct_x.ndim = 1
NonEmpty == Len(ct_x.elems) > 0 \/ ct_allow_empty
Ascending ==
    \A i, j \in 1..Len(ct_x.elems) :
        i < j => /\ ct_x.elems[i][1] = "num" /\ ct_x.elems[j][1] = "num"
                 /\ ct_x.elems[i][2] < ct_x.elems[j][2]
NonNegative ==
    \A i \in 1..Len(ct_x.elems) :
        ct_x.elems[i][1] = "num" /\ ct_x.elems[i][2] >= 0

\* C17: check_time_array accepts an array exactly when it is
\* one-dimensional, non-empty (unless allow_empty is set), strictly
\* ascending and without negative values; the conditions are looked at in
\* the order dimension, emptiness, ordering, sign, and the first one that
\* fails is the one reported; an array of one non-negative element is
\* accepted.
C17_TimeArrayChecks ==
    ct_pc \in {"returned", "error"} =>
        /\ ct_pc = "returned" <=>
               OneDimensional /\ NonEmpty /\ Ascending /\ NonNegative
        /\ ct_pc = "returned" <=> ct_res = "ok"
        /\ ~OneDimensional => ct_res = "1D array"
        /\ OneDimensional /\ ~NonEmpty => ct_res = "at least one element"
        /\ OneDimensional /\ NonEmpty /\ ~Ascending =>
               ct_res = "strictly ascending"
        /\ OneDimensional /\ NonEmpty /\ Ascending /\ ~NonNegative =>
               ct_res = "positive values only"
        /\ (OneDimensional /\ Len(ct_x.elems) = 1
              /\ ct_x.elems[1][1] = "num" /\ ct_x.elems[1][2] >= 0) =>
               ct_pc = "returned"

\* an array that is neither ascending nor non-negative has been rejected
\* for its ordering
C17_Witness ==
    /\ ct_pc = "error" /\ ct_res = "strictly ascending"
    /\ OneDimensional /\ ~Ascending /\ ~NonNegative

\* ------------------------------------------------------ C19, C20
OffsetsOf(m) == {ij[2] - ij[1] : ij \in {kl \in Indices : m[kl[1]][kl[2]] # 0}}
Expected == IF sp_op = "add" THEN MatAdd(sp_A, sp_B) ELSE MatSub(sp_A, sp_B)

\* C19: to_sparse(x).to_dense() equals x for every matrix x; to_sparse
\* stores exactly the diagonals of x that have a nonzero entry, each under
\* its offset (column index minus row index), and the SparseQArray it
\* builds holds the offsets in its offsets field and the diagonals in its
\* diags field.
C19_RoundTrip ==
    sp_pc \in {"converted", "done"} =>
        /\ sp_back.kind = "dense" /\ sp_back.val = sp_A
        /\ sp_sparse.offsets.tag = "tuple"
        /\ sp_sparse.offsets.v = sorted(OffsetsOf(sp_A))
        /\ sp_sparse.diags.tag = "array"
        /\ Len(sp_sparse.diags.v) = Len(sp_sparse.offsets.v)
        /\ \A i \in 1..Len(sp_sparse.offsets.v) : \A c \in 1..Dim :
               sp_sparse.diags.v[i][c] =
                   IF c - sp_sparse.offsets.v[i] \in 1..Dim
                   THEN sp_A[c - sp_sparse.offsets.v[i]][c] ELSE 0

\* C20: (A op B).to_dense() equals dense(A) op dense(B) for sparse op
\* sparse, sparse op dense and dense op sparse, with op + or -; the offsets
\* of the result of sparse op sparse are the sorted union of the offsets of
\* the operands, each once; dense - sparse negates the sparse operand.
C20_AgreesWithDense ==
    sp_pc = "done" =>
        /\ result_to_dense(sp_out).kind = "dense"
        /\ result_to_dense(sp_out).val = Expected
        /\ sp_kind = "sparse_sparse" =>
               /\ sp_out.kind = "sparse"
               /\ sp_out.val.offsets.tag = "tuple"
               /\ sp_out.val.offsets.v =
                      sorted(OffsetsOf(sp_A) \cup OffsetsOf(sp_B))

\* ------------------------------------------------------------ C21
Periodic(h) == QLeq(QAbs(QSub(h[1], h[2])), PeriodTol)

\* C21: floquet rejects a Hamiltonian that is not periodic with the period
\* T (norm of H(0) - H(T) above 1e-6); for a batched Hamiltonian the error
\* is raised as soon as at least one element of the batch is not periodic.
C21_NonPeriodicRejected ==
    (fl_pc \in {"checked", "returned", "error"}
       /\ ~span_exceeds(fl_tsave, fl_T)
       /\ \E b \in 1..Len(fl_H) : ~Periodic(fl_H[b]))
    => fl_pc = "error" /\ fl_err = "not periodic"

\* ------------------------------------------------------------ C22
\* the layout selected by the most recent successful set_layout among the
\* first n calls, dia when there is none
RECURSIVE Selected(_, _)
Selected(hist, n) ==
    IF n = 0 THEN "dia"
    ELSE IF hist[n].op = "set_layout" /\ hist[n].out = "ok"
    THEN hist[n].arg.val
    ELSE Selected(hist, n - 1)

\* C22: after any sequence of set_layout and get_layout calls,
\* get_layout(None) returns the layout of the most recent successful
\* set_layout, or dia if none succeeded; set_layout with a string other
\* than 'dense' or 'dia' raises ValueError and leaves the default as it
\* was; get_layout with a Layout returns it and never changes the default;
\* get_layout with any other value that is not None raises TypeError.
C22_LayoutDefault ==
    ly_pc = "loaded" =>
        /\ ly_default.val = Selected(ly_hist, Len(ly_hist))
        /\ \A n \in 1..Len(ly_hist) :
             LET call == ly_hist[n]
             IN  /\ call.op = "set_layout" =>
                       /\ call.arg \in {Str("dense"), Str("dia")} =>
                              call.out = "ok"
                       /\ (call.arg.type = "str"
                             /\ call.arg.val \notin {"dense", "dia"}) =>
                              call.out = "ValueError"
                 /\ call.op = "get_layout" =>
                       /\ call.arg = NoneArg =>
                              call.out = Selected(ly_hist, n - 1)
                       /\ call.arg.type = "Layout" =>
                              call.out = call.arg.val
                       /\ call.arg.type \notin {"NoneType", "Layout"} =>
                              call.out = "TypeError"

\* dense was selected, a later set_layout failed, and get_layout(None)
\* still returned dense
C22_Witness ==
    /\ Len(ly_hist) = 3
    /\ ly_hist[1].op = "set_layout" /\ ly_hist[1].arg = Str("dense")
    /\ ly_hist[2].op = "set_layout" /\ ly_hist[2].out = "ValueError"
    /\ ly_hist[3].op = "get_layout" /\ ly_hist[3].arg = NoneArg
    /\ ly_hist[3].out = "dense"

\* ------------------------------------------------------------ C23
Documented ==
    \/ rn_alg \in {"none", "autograd"}
    \/ rn_alg = "adjoint" /\ rn_class = "AdjointSolver"
MethodOf(alg) ==
    IF alg = "none" THEN "run_nograd"
    ELSE IF alg = "autograd" THEN "run_autograd" ELSE "run_adjoint"

\* C23: Solver.run performs exactly one integration for each documented
\* gradient algorithm: None runs run_nograd once and nothing else,
\* 'autograd' run_autograd, 'adjoint' run_adjoint (for an AdjointSolver);
\* start_time is recorded before the integration begins and end_time
\* after it ends.
C23_OneIntegration ==
    (rn_pc = "done" /\ Documented) =>
        /\ top_level(rn_calls) = <<<<MethodOf(rn_alg), 1>>>>
        /\ Len(rn_integrations) = 1
        /\ Len(SelectSeq(rn_calls, LAMBDA c : c[1] = "run_autograd")) = 1
        /\ rn_start <= rn_integrations[1][1]
        /\ rn_integrations[1][2] <= rn_end

\* an adjoint run is over, and the clock moved before and during it
C23_Witness ==
    /\ rn_pc = "done" /\ rn_alg = "adjoint" /\ rn_class = "AdjointSolver"
    /\ rn_start < rn_integrations[1][1]
    /\ rn_integrations[1][1] < rn_end

\* ------------------------------------------------------ C24, C25
\* C24: one DormandPrince5.step evaluates f exactly 6 times (stages 2 to
\* 7, stage 1 being the f0 supplied), and the f1 it returns is f evaluated
\* at (t0 + dt, y1) for the 5th-order solution y1 it returns, so that f1
\* can be the f0 of the next step.
C24_SixEvaluationsAndFSAL ==
    dp_pc = "stepped" =>
        /\ Len(dp_evals) = 6
        /\ \A i \in 1..6 : dp_evals[i] # dp_in.f0
        /\ dp_out[2] = Y(dp_steps, Take(csol5, 6))
        /\ dp_out[1] = F(QAdd(dp_in.t0, dp_in.dt), dp_out[2])

\* a step has been taken whose f0 was the f1 of the step before
C24_Witness ==
    /\ dp_pc = "stepped" /\ dp_steps >= 2
    /\ dp_in.f0 = F(dp_in.t0, dp_in.y0) /\ dp_in.y0.step = dp_steps - 1
    /\ dp_out[1] = F(QAdd(dp_in.t0, dp_in.dt), dp_out[2])

\* C25: over any sequence of step calls on one DormandPrince5 integrator,
\* build_tableau is invoked exactly once, on the first step; every later
\* step reuses the cached tableau, which is never modified once built.
C25_TableauBuiltOnce ==
    /\ [](dp_pc # "off" =>
            /\ dp_builds = IF dp_steps = 0 THEN 0 ELSE 1
            /\ dp_steps = 0 <=> dp_tableau = None)
    /\ [][dp_tableau # None => dp_tableau' = dp_tableau]_vars

\* several steps were taken on the tableau built once
C25_Witness ==
    dp_steps = MaxStepCalls /\ dp_builds = 1 /\ dp_tableau # None
\* C26: init_tstep never fails and returns a strictly positive step: h0 is
\* positive, no division has a zero divisor, the step is min(100 * h0, h1),
\* h1 falls back to max(1e-6, 1e-3 * h0) when d1 and d2 are both at most
\* 1e-15, and with d0 = d1 = d2 = 0 the step is 1e-6.
C26_InitTstepPositive ==
    it_pc = "done" =>
        /\ Zero \notin it_out.divisors
        /\ \A x \in it_out.divisors : x[2] # 0
        /\ RLess(Zero, it_out.h0)
        /\ RLess(Zero, it_out.h1)
        /\ RLess(Zero, it_out.dt)
        /\ it_out.dt[2] # 0
        /\ it_out.dt = RMin(RMul(Hundred, it_out.h0), it_out.h1)
        /\ (RLeq(it_d1, Epsilon15) /\ RLeq(it_d2, Epsilon15)
              => it_out.h1 = RMax(Millionth, RMul(Thousandth, it_out.h0)))
        /\ (it_d0 = Zero /\ it_d1 = Zero /\ it_d2 = Zero
              => it_out.dt = Millionth)

C26_Witness ==
    /\ it_pc = "done"
    /\ it_d0 = Zero /\ it_d1 = Zero /\ it_d2 = Zero
    /\ it_out.dt = Millionth
\* C27: a fixed-step forward run applies exactly (t1 - t0) / dt forward steps
\* between two consecutive stop times and (t_save[-1] - t0) / dt in total;
\* when the first stop time is the start time, no step is applied before the
\* first save and the first saved state is the initial state.
C27_ForwardStepCount ==
    (variant = "fixed" /\ pc \in {"integrate", "ran", "backward", "done"})
    => /\ pc = "integrate" =>
            (n_forward + Len(times)) * dt = t_stop[t_stop_counter + 1] - t0
       /\ (pc = "integrate" /\ t_stop_counter >= 1) =>
            \E k \in 0..((t_stop[t_stop_counter + 1] - t) \div dt) :
                /\ k + Len(times) = (t_stop[t_stop_counter + 1] - t) \div dt
                /\ (n_forward - k) * dt = t - t0
       /\ AfterRun => n_forward * dt = t_save[N] - t0
       /\ (t0 = t_save[1] /\ t_stop_counter = 0) => n_forward = 0 /\ y = Y0
       /\ (t0 = t_save[1] /\ t_stop_counter >= 1 /\ save_states)
            => y_save[1] = Y0

C27_Witness ==
    /\ variant = "fixed" /\ pc = "ran" /\ save_states
    /\ N = 2 /\ t0 = t_save[1] /\ t0 > 0 /\ dt = 1
    /\ n_forward = 2 /\ t_save[2] - t_save[1] = 2
    /\ y_save[1] = Y0
\* C28: the multiplier update_tstep applies to the step depends only on the
\* error: for a nonzero error and a scaling c > 0,
\* update_tstep(c * dt, error) = c * update_tstep(dt, error).
Scalings == {<<1, 2, 0>>, <<2, 1, 0>>}
SameNumber(x, z) == RLeq(x, z) /\ RLeq(z, x)

C28_StepHomogeneous ==
    (ad_pc \in {"loop", "done"} /\ ad_n >= 1 /\ last_err # Zero)
    => /\ ad_dt = update_tstep(last_dt, last_err)
       /\ \A c \in Scalings :
            SameNumber(update_tstep(RMul(c, last_dt), last_err),
                       RMul(c, ad_dt))
\* C29: the solver dispatch of mesolve is total: once the jump operators
\* are accepted, every solver option either selects its scheme (a Rouchon
\* option MERouchon1, MERouchon1_5 or MERouchon2, no option the default
\* Rouchon(dt=1e-2) and MERouchon1) or raises NotImplementedError; the call
\* of odeint is never reached with qsolver unbound.
Schemes == {"MERouchon1", "MERouchon1_5", "MERouchon2"}

C29_DispatchTotal ==
    (m_impl \in {"single", "package"} /\ m_pc \notin {"off", "call"}
        /\ check_jump_ops(m_jump_ops))
    => /\ m_err # "UnboundLocalError"
       /\ IF m_solver[1] = "Other"
          THEN /\ m_pc = "error" /\ m_err = "NotImplementedError"
               /\ m_qsolver = "none"
          ELSE /\ m_qsolver \in Schemes
               /\ m_qsolver = qsolver_class(m_solver)
               /\ m_solver[1] = "None" =>
                    m_qsolver = "MERouchon1" /\ m_dt = Q(1, 100)
\* C30: the adjoint backward pass leaves the incoming gradient of the states
\* unchanged: no addition to the adjoint a (the expectation-value term of the
\* final time, the terms of the checkpoints after each segment) writes into
\* grad_y[0].
C30_GradYUnchanged ==
    (gradient_alg = "adjoint" /\ pc \in {"backward", "done", "error"}
        /\ a # None)
    => grad_y0 = IncomingGradY


====
